---- MODULE Spec2Model ----
(***************************************************************************)
(* sshpod: the bootstrap-and-bridge pipeline.                              *)
(*                                                                         *)
(* Each part of the program that is modelled has its own specification    *)
(* over the module's variables:                                            *)
(*   - START_SSHD_SCRIPT (src/remote.rs), the shell script that callers    *)
(*     run inside the container against the shared directory BASE          *)
(*     (SpecScript: callers interleave; SpecScriptSeq: one after another); *)
(*   - the bridge stage of proxy::run with proxy_io::pump (SpecBridge,     *)
(*     and SpecBridgeFair with the scheduler's fairness);                  *)
(*   - bundle::ensure_bundle and its install scripts (SpecBundle);         *)
(*   - the stages of proxy::run before the bridge (SpecProxy), and the     *)
(*     choice of a pod among those listed (SpecPods);                      *)
(*   - hostspec::parse and the head of proxy::run (SpecParse);             *)
(*   - kubectl's label selectors for deployments and jobs (SpecSelector).  *)
(***************************************************************************)
EXTENDS Integers, Sequences, FiniteSets, TLC

(***************************************************************************)
(* Bounds of the model.                                                    *)
(***************************************************************************)
\* invocations of the start script over the life of one BASE
MaxRuns == 3
\* launch attempts of the script's outer loop (`while [ $i -lt 30 ]`)
MaxAttempts == 2
\* polls after each launch (`while [ $j -lt 10 ]`)
MaxPolls == 1

\* bytes each side of the bridge has to send
MaxBytes == 2
\* bytes the buffer of one copy holds
BufCap == 2

\* calls of ensure_bundle over the life of one BASE
MaxCalls == 3

\* pods in the list select_pod gets
MaxPods == 3
\* calls of select_pod with one pod list
MaxSelects == 2

\* tokens of a hostname before the .sshpod suffix
MaxTokens == 3

\* matchExpressions of a label selector
MaxExprs == 2

\* the callers that share one BASE
Callers == {"c1", "c2"}
\* the public-key lines the callers pass as PUBKEY_LINE
Keys == {"k1", "k2"}
\* 16-bit values read from /dev/urandom by rand_port
RandVals == {0, 44999, 45000}

PortBase == 20000
PortSpan == 45000

VARIABLES
    \* ---- START_SSHD_SCRIPT: files under BASE and the daemons started from it
    ak_exists,        \* BASE/authorized_keys exists
    authorized_keys,  \* its lines, in file order
    sshd_config,      \* Port written in BASE/sshd_config (0: no file)
    sshd_pid,         \* pid held by BASE/sshd.pid (0: no file)
    sshd_port,        \* port held by BASE/sshd.port (0: no file, EmptyFile: no line)
    daemons,          \* sshd processes launched so far; the index is the pid
    \* ---- START_SSHD_SCRIPT: one shell per caller
    pc,               \* position of the caller's shell in the script
    key,              \* PUBKEY_LINE ($3)
    i,                \* the script's i
    j,                \* the script's j
    PORT,             \* the script's PORT
    out,              \* the script's stdout (0: nothing printed)
    rc,               \* exit status ("none" while running)
    runs,             \* invocations started so far
    child,            \* pid of the sshd the caller's current attempt launched
    \* ---- history of the script runs (read by the properties only)
    last,             \* outcome of the most recently finished invocation
    prev,             \* BASE as the running invocation found it (SpecScriptSeq)
    launches,         \* history: sshd launches of the current invocation
    polls,            \* history: poll rounds since the last launch
    \* ---- proxy::run, bridge stage
    run_pc,           \* position of run
    forward,          \* the port-forward subprocess: "none", "running", "stopped"
    stop_calls,       \* calls of forward.stop()
    result,           \* what run returned ("none" before it returns)
    \* ---- proxy_io::pump
    to_remote,        \* the stdin -> socket task
    from_remote,      \* the socket -> stdout task
    stdin_left,       \* bytes the caller has still to supply on stdin
    stdin_open,       \* stdin has not been closed by the caller
    stdin_read,       \* bytes read from stdin
    tr_eof,           \* the copy of to_remote has read EOF from stdin
    tr_buf,           \* bytes read from stdin and not yet written to the socket
    sock_sent,        \* bytes written to the socket
    wr_shutdown,      \* the write side of the socket has been shut down
    remote_left,      \* bytes the remote side has still to send
    remote_open,      \* the remote side has not closed its sending direction
    sock_recv,        \* bytes read from the socket
    fr_eof,           \* the copy of from_remote has read EOF from the socket
    fr_buf,           \* bytes read from the socket and not yet written to stdout
    stdout_written,   \* bytes written to stdout
    flushed,          \* stdout.flush() has completed
    pump_result,      \* what pump returned ("none" before it returns)
    errs,             \* history: the errors of the bridge stage in order of time
    \* ---- bundle::ensure_bundle: the container
    arch,             \* the architecture detect_remote_arch found
    tools,            \* what the container can run: sh, xz, gzip
    payload,          \* the bundle of this arch on the local machine:
                      \* "missing", "ok", or "corrupt" (not a valid xz stream)
    version_file,     \* BASE/bundle/VERSION
    arch_file,        \* BASE/bundle/ARCH
    bundle_sshd,      \* BASE/bundle/sshd: "absent", "empty", "partial", "old", "new"
    \* ---- bundle::ensure_bundle: one call per caller at a time
    u_pc,             \* position of the caller in ensure_bundle
    remote_version,   \* its remote_version
    remote_arch,      \* its remote_arch
    rung,             \* the install attempt it is at: "xz", "gzip", "plain"
    n_exec,           \* exec_with_input calls of the current ensure_bundle
    u_result,         \* what ensure_bundle returned ("none" before it returns)
    u_runs,           \* ensure_bundle calls started so far
    \* ---- history of the ensure_bundle calls (read by the properties only)
    found,            \* the markers the call read were both in place
    after_ok,         \* the call follows a successful one and runs alone
    u_last_ok,        \* the most recently finished call succeeded
    issued,           \* the install attempts the call issued, in order
    won,              \* the attempt whose exec_with_input returned Ok, or "none"
    \* ---- proxy::run: the pod the invocations resolve to
    containers,       \* PodInfo.containers
    cuid,             \* the effective uid of the container, as `id -u` prints it
    cuser,            \* the user name of that uid, if it has one
    lock_dir,         \* BASE/lock exists
    \* ---- proxy::run: one invocation per caller
    host_container,   \* host.container
    login_user,       \* login_user
    r_pc,             \* the stage the invocation is at
    r_result,         \* what run returned ("none" before it returns)
    container,        \* the container chosen ("none" before the choice)
    machine,          \* what `uname -m` prints in the container
    r_arch,           \* what detect_remote_arch returned (None before, and for Err)
    \* ---- history of the invocation (read by the properties only)
    r_trace,          \* the stages started, in order
    r_failed,         \* the stage whose call returned Err, or "none"
    lock_out,         \* what mkdir BASE/lock did for this invocation
    r_exec,           \* a kubectl exec was issued against the pod
    r_input,          \* an exec_with_input was issued
    \* ---- kubectl::select_pod, is_ready, is_running
    items,            \* pods.items, the parsed pod list
    picked,           \* what the calls of select_pod returned, in order
    verdict,          \* what is_ready and is_running returned for each pod
    \* ---- hostspec::parse
    host,             \* the hostname, as the list of its dot-separated labels
    parsed,           \* what parse(host) returned
    dotted,           \* what parse(host + ".") returned
    reordered,        \* a hostname with the tokens of host in another order,
                      \* and what parse returned for it
    run_head,         \* what the head of proxy::run did with host: the context
                      \* it checked and the context it hands to kubectl
    \* ---- kubectl::to_selector and the selector of a job
    selector,         \* a LabelSelector, as parsed from the JSON of kubectl
    rendered,         \* what to_selector(selector) returned
    job,              \* a Job, as parsed from the JSON of kubectl get job
    job_rendered      \* the selector choose_pod_for_job came to for job

svars == <<ak_exists, authorized_keys, sshd_config, sshd_pid, sshd_port, daemons,
           pc, key, i, j, PORT, out, rc, runs, child, last, prev, launches, polls>>

bvars == <<run_pc, forward, stop_calls, result, to_remote, from_remote,
           stdin_left, stdin_open, stdin_read, tr_eof, tr_buf, sock_sent, wr_shutdown,
           remote_left, remote_open, sock_recv, fr_eof, fr_buf, stdout_written,
           flushed, pump_result, errs>>

uvars == <<arch, tools, payload, version_file, arch_file, bundle_sshd, u_pc, remote_version,
           remote_arch, rung, n_exec, u_result, u_runs, found, after_ok, u_last_ok, issued, won>>

rvars == <<containers, cuid, cuser, lock_dir, host_container, login_user, r_pc,
           r_result, container, machine, r_arch, r_trace, r_failed, lock_out, r_exec,
           r_input>>

kvars == <<items, picked, verdict>>

hvars == <<host, parsed, dotted, reordered, run_head>>

lvars == <<selector, rendered, job, job_rendered>>

vars == <<svars, bvars, uvars, rvars, kvars, hvars, lvars>>

outside_script == <<bvars, uvars, rvars, kvars, hvars, lvars>>
outside_bridge == <<svars, uvars, rvars, kvars, hvars, lvars>>
outside_bundle == <<svars, bvars, rvars, kvars, hvars, lvars>>
outside_run == <<svars, bvars, uvars, kvars, hvars, lvars>>
outside_pods == <<svars, bvars, uvars, rvars, hvars, lvars>>
outside_parse == <<svars, bvars, uvars, rvars, kvars, lvars>>
outside_selector == <<svars, bvars, uvars, rvars, kvars, hvars>>

(***************************************************************************)
(* START_SSHD_SCRIPT                                                       *)
(***************************************************************************)

\* a rand_port without the modulo
rand_port_wide(val) == PortBase + val

\* rand_port: 20000 + (val % 45000)
rand_port(val) == PortBase + (val % PortSpan)

\* a grep that looks at the first line of the file only
GrepFirstLine(line, file) == Len(file) > 0 /\ file[1] = line

\* grep -qxF "$PUBKEY_LINE" FILE: some whole line of the file equals the key
GrepLine(line, file) == \E n \in 1..Len(file) : file[n] = line

\* kill -0 PID: the process exists
KillZero(pid) == pid \in 1..Len(daemons) /\ daemons[pid].st # "dead"

\* BASE/sshd.port between the open of `> sshd.port`, which truncates, and the
\* write of echo
EmptyFile == -1

\* cat "$BASE/sshd.port": what is printed (0: nothing)
CatPort(file) == IF file = EmptyFile THEN 0 ELSE file

\* the fast path with the kill -0 test inverted
FastPathTestInverted == sshd_pid # 0 /\ ~KillZero(sshd_pid) /\ sshd_port # 0

\* the test of the fast path:
\*   [ -f sshd.pid ] && kill -0 "$(cat sshd.pid)" && [ -f sshd.port ]
FastPathTest == sshd_pid # 0 /\ KillZero(sshd_pid) /\ sshd_port # 0

\* the test of the poll loop: [ -f sshd.pid ] && kill -0 "$(cat sshd.pid)"
PollTest == sshd_pid # 0 /\ KillZero(sshd_pid)

Idle(c) == pc[c] \in {"idle", "done"}

NoRun == [ok |-> FALSE, out |-> 0]

InitScript ==
    /\ ak_exists = FALSE
    /\ authorized_keys = <<>>
    /\ sshd_config = 0
    /\ sshd_pid = 0
    /\ sshd_port = 0
    /\ daemons = <<>>
    /\ pc = [c \in Callers |-> "idle"]
    /\ key \in {k \in [Callers -> Keys] : k["c1"] = "k1"}
    /\ i = [c \in Callers |-> 0]
    /\ j = [c \in Callers |-> 0]
    /\ PORT = [c \in Callers |-> 0]
    /\ out = [c \in Callers |-> 0]
    /\ rc = [c \in Callers |-> "none"]
    /\ runs = 0
    /\ last = NoRun
    /\ child = [c \in Callers |-> 0]
    /\ prev = [who |-> "c1", ok |-> FALSE, out |-> 0,
               pid |-> 0, port |-> 0, config |-> 0, nd |-> 0]
    /\ launches = [c \in Callers |-> 0]
    /\ polls = [c \in Callers |-> 0]

files == <<ak_exists, authorized_keys, sshd_config, sshd_pid, sshd_port, daemons>>
shell == <<i, j, PORT, out, rc, child>>
loops == <<launches, polls>>

\* ensure_sshd_running spawns the script; lines 77-91 (set -eu, mkdir -p, chmod)
Begin(c) ==
    /\ UNCHANGED outside_script
    /\ runs' = runs + 1
    /\ pc' = [pc EXCEPT ![c] = "test_ak"]
    /\ i' = [i EXCEPT ![c] = 0]
    /\ j' = [j EXCEPT ![c] = 0]
    /\ PORT' = [PORT EXCEPT ![c] = 0]
    /\ out' = [out EXCEPT ![c] = 0]
    /\ rc' = [rc EXCEPT ![c] = "none"]
    /\ child' = [child EXCEPT ![c] = 0]
    /\ launches' = [launches EXCEPT ![c] = 0]
    /\ polls' = [polls EXCEPT ![c] = 0]
    /\ UNCHANGED <<files, key, last>>

\* callers race: each caller runs the script once, at any time
Start(c) ==
    /\ pc[c] = "idle"
    /\ Begin(c)
    /\ UNCHANGED prev

\* callers run the script one after another
StartSeq(c) ==
    /\ \A d \in Callers : Idle(d)
    /\ runs < MaxRuns
    /\ Begin(c)
    /\ prev' = [who |-> c, ok |-> last.ok, out |-> last.out, pid |-> sshd_pid,
                port |-> sshd_port, config |-> sshd_config, nd |-> Len(daemons)]

\* line 93: [ ! -f "$BASE/authorized_keys" ]
TestAk(c) ==
    /\ UNCHANGED outside_script
    /\ pc[c] = "test_ak"
    /\ pc' = [pc EXCEPT ![c] = IF ak_exists THEN "grep_ak" ELSE "create_ak"]
    /\ UNCHANGED <<files, shell, loops, key, runs, last, prev>>

\* line 94: : > "$BASE/authorized_keys"   (creates the file or truncates it)
CreateAk(c) ==
    /\ UNCHANGED outside_script
    /\ pc[c] = "create_ak"
    /\ ak_exists' = TRUE
    /\ authorized_keys' = <<>>
    /\ pc' = [pc EXCEPT ![c] = "grep_ak"]
    /\ UNCHANGED <<sshd_config, sshd_pid, sshd_port, daemons, shell, loops, key, runs, last, prev>>

\* line 96, left of ||: grep -qxF "$PUBKEY_LINE" "$BASE/authorized_keys"
GrepAk(c) ==
    /\ UNCHANGED outside_script
    /\ pc[c] = "grep_ak"
    /\ pc' = [pc EXCEPT ![c] =
                IF GrepLine(key[c], authorized_keys) THEN "fast" ELSE "append_ak"]
    /\ UNCHANGED <<files, shell, loops, key, runs, last, prev>>

\* line 96, right of ||: printf '%s\n' "$PUBKEY_LINE" >> "$BASE/authorized_keys"
AppendAk(c) ==
    /\ UNCHANGED outside_script
    /\ pc[c] = "append_ak"
    /\ ak_exists' = TRUE
    /\ authorized_keys' = Append(authorized_keys, key[c])
    /\ pc' = [pc EXCEPT ![c] = "fast"]
    /\ UNCHANGED <<sshd_config, sshd_pid, sshd_port, daemons, shell, loops, key, runs, last, prev>>

\* lines 97-113: chmod/chown, /tmp/empty, host key, then the fast path
FastPath(c) ==
    /\ UNCHANGED outside_script
    /\ pc[c] = "fast"
    /\ IF FastPathTest
       THEN /\ out' = [out EXCEPT ![c] = CatPort(sshd_port)]
            /\ rc' = [rc EXCEPT ![c] = "ok"]
            /\ pc' = [pc EXCEPT ![c] = "done"]
            /\ last' = [ok |-> TRUE, out |-> CatPort(sshd_port)]
       ELSE /\ pc' = [pc EXCEPT ![c] = "loop"]
            /\ UNCHANGED <<out, rc, last>>
    /\ UNCHANGED <<files, i, j, PORT, child, loops, key, runs, prev>>

\* a loop that goes round once more
LoopTestLe(c) == i[c] <= MaxAttempts

\* line 125: [ $i -lt 30 ]
LoopTest(c) == i[c] < MaxAttempts

\* lines 125-195: loop test, i=$((i+1)), PORT="$(rand_port)", write sshd_config;
\* lines 211-212 when the attempts are used up
LoopHead(c) ==
    /\ UNCHANGED outside_script
    /\ pc[c] = "loop"
    /\ IF LoopTest(c)
       THEN \E val \in RandVals :
              /\ i' = [i EXCEPT ![c] = i[c] + 1]
              /\ PORT' = [PORT EXCEPT ![c] = rand_port(val)]
              /\ sshd_config' = rand_port(val)
              /\ pc' = [pc EXCEPT ![c] = "rm_pid"]
              /\ child' = [child EXCEPT ![c] = 0]
              /\ UNCHANGED <<rc, last>>
       ELSE /\ rc' = [rc EXCEPT ![c] = "fail"]
            /\ pc' = [pc EXCEPT ![c] = "done"]
            /\ last' = NoRun
            /\ UNCHANGED <<i, PORT, sshd_config, child>>
    /\ UNCHANGED <<ak_exists, authorized_keys, sshd_pid, sshd_port, daemons,
                   j, out, loops, key, runs, prev>>

\* line 196: rm -f "$BASE/sshd.pid"
RmPid(c) ==
    /\ UNCHANGED outside_script
    /\ pc[c] = "rm_pid"
    /\ sshd_pid' = 0
    /\ pc' = [pc EXCEPT ![c] = "launch"]
    /\ UNCHANGED <<ak_exists, authorized_keys, sshd_config, sshd_port, daemons,
                   shell, loops, key, runs, last, prev>>

\* line 197: "$SSHD" -f "$BASE/sshd_config" ... || true ; line 198: j=0
\* sshd reads the configuration, forks into the background and returns
Launch(c) ==
    /\ UNCHANGED outside_script
    /\ pc[c] = "launch"
    /\ daemons' = Append(daemons, [port |-> sshd_config, st |-> "starting"])
    /\ child' = [child EXCEPT ![c] = Len(daemons) + 1]
    /\ j' = [j EXCEPT ![c] = 0]
    /\ launches' = [launches EXCEPT ![c] = launches[c] + 1]
    /\ polls' = [polls EXCEPT ![c] = 0]
    /\ pc' = [pc EXCEPT ![c] = "poll"]
    /\ UNCHANGED <<ak_exists, authorized_keys, sshd_config, sshd_pid, sshd_port,
                   i, PORT, out, rc, key, runs, last, prev>>

\* the sshd this attempt launched has neither bound its port nor exited yet
Starting(c) == child[c] # 0 /\ daemons[child[c]].st = "starting"

\* lines 199-208: one round of the poll loop.  The last failed poll comes ten
\* seconds after the launch, by when the launched sshd has bound its port or
\* exited.
Poll(c) ==
    /\ UNCHANGED outside_script
    /\ pc[c] = "poll"
    /\ IF PollTest
       THEN /\ pc' = [pc EXCEPT ![c] = "open_port"]
            /\ UNCHANGED j
       ELSE /\ j' = [j EXCEPT ![c] = j[c] + 1]
            /\ (j[c] + 1 >= MaxPolls) => ~Starting(c)
            /\ pc' = [pc EXCEPT ![c] = IF j[c] + 1 < MaxPolls THEN "poll" ELSE "loop"]
    /\ polls' = [polls EXCEPT ![c] = polls[c] + 1]
    /\ UNCHANGED <<files, i, PORT, out, rc, child, launches, key, runs, last, prev>>

\* line 201: the shell opens sshd.port for `>`: the file is there and empty
OpenPort(c) ==
    /\ UNCHANGED outside_script
    /\ pc[c] = "open_port"
    /\ sshd_port' = EmptyFile
    /\ pc' = [pc EXCEPT ![c] = "write_port"]
    /\ UNCHANGED <<ak_exists, authorized_keys, sshd_config, sshd_pid, daemons,
                   shell, loops, key, runs, last, prev>>

\* lines 201-204: echo writes "$PORT" to sshd.port; chmod; echo "$PORT"; exit 0
WritePort(c) ==
    /\ UNCHANGED outside_script
    /\ pc[c] = "write_port"
    /\ sshd_port' = PORT[c]
    /\ out' = [out EXCEPT ![c] = PORT[c]]
    /\ rc' = [rc EXCEPT ![c] = "ok"]
    /\ pc' = [pc EXCEPT ![c] = "done"]
    /\ last' = [ok |-> TRUE, out |-> PORT[c]]
    /\ child' = [child EXCEPT ![c] = 0]
    /\ UNCHANGED <<ak_exists, authorized_keys, sshd_config, sshd_pid, daemons,
                   i, j, PORT, loops, key, runs, prev>>

\* an sshd that has exited holds no port
Dead == [port |-> 0, st |-> "dead"]

\* the launched sshd binds 127.0.0.1:Port and writes PidFile (sshd_config,
\* lines 133-136); it exits when the port is taken
DaemonBind(d) ==
    /\ UNCHANGED outside_script
    /\ d \in 1..Len(daemons)
    /\ daemons[d].st = "starting"
    /\ IF \E e \in 1..Len(daemons) :
            daemons[e].st = "listening" /\ daemons[e].port = daemons[d].port
       THEN /\ daemons' = [daemons EXCEPT ![d] = Dead]
            /\ UNCHANGED sshd_pid
       ELSE /\ daemons' = [daemons EXCEPT ![d].st = "listening"]
            /\ sshd_pid' = d
    /\ UNCHANGED <<ak_exists, authorized_keys, sshd_config, sshd_port,
                   pc, shell, loops, key, runs, last, prev>>

\* a listening sshd exits (killed, crashed, container signal)
DaemonExit(d) ==
    /\ UNCHANGED outside_script
    /\ d \in 1..Len(daemons)
    /\ daemons[d].st = "listening"
    /\ daemons' = [daemons EXCEPT ![d] = Dead]
    /\ UNCHANGED <<ak_exists, authorized_keys, sshd_config, sshd_pid, sshd_port,
                   pc, shell, loops, key, runs, last, prev>>

\* the largest u16
U16Max == 65535

\* remote.rs 57-73: exec_with_input(...)? is Err when the script exits
\* non-zero; then output.trim().parse::<u16>()? (0 stands for no output)
ensure_sshd_running(status, stdout) ==
    IF status = "ok" /\ stdout \in 1..U16Max
    THEN [ok |-> TRUE, port |-> stdout]
    ELSE [ok |-> FALSE, port |-> 0]

Step(c) ==
    \/ TestAk(c) \/ CreateAk(c) \/ GrepAk(c) \/ AppendAk(c)
    \/ FastPath(c) \/ LoopHead(c) \/ RmPid(c) \/ Launch(c)
    \/ Poll(c) \/ OpenPort(c) \/ WritePort(c)

MaxDaemons == MaxRuns * MaxAttempts

NextScript ==
    \/ \E c \in Callers : Start(c)
    \/ \E c \in Callers : Step(c)
    \/ \E d \in 1..MaxDaemons : DaemonBind(d)

NextScriptSeq ==
    \/ \E c \in Callers : StartSeq(c)
    \/ \E c \in Callers : Step(c)
    \/ \E d \in 1..MaxDaemons : DaemonBind(d)
    \/ \E d \in 1..MaxDaemons : DaemonExit(d)


(***************************************************************************)
(* proxy::run, bridge stage (src/proxy.rs 117-133) and proxy_io::pump      *)
(***************************************************************************)

ScriptParked == InitScript /\ key = [c \in Callers |-> "k1"]

InitBridge ==
    /\ run_pc = "port_forward"
    /\ forward = "none"
    /\ stop_calls = 0
    /\ result = "none"
    /\ to_remote = "idle"
    /\ from_remote = "idle"
    /\ stdin_left \in 0..MaxBytes
    /\ stdin_open = TRUE
    /\ stdin_read = 0
    /\ tr_eof = FALSE
    /\ tr_buf = 0
    /\ sock_sent = 0
    /\ wr_shutdown = FALSE
    /\ remote_left \in 0..MaxBytes
    /\ remote_open = TRUE
    /\ sock_recv = 0
    /\ fr_eof = FALSE
    /\ fr_buf = 0
    /\ stdout_written = 0
    /\ flushed = FALSE
    /\ pump_result = "none"
    /\ errs = <<>>

BridgeParked ==
    /\ InitBridge
    /\ stdin_left = 0
    /\ remote_left = 0

run_state == <<run_pc, forward, stop_calls, result>>
tr_state == <<to_remote, stdin_left, stdin_read, tr_eof, tr_buf, sock_sent, wr_shutdown>>
fr_state == <<from_remote, remote_left, sock_recv, fr_eof, fr_buf, stdout_written, flushed>>

\* the port-forward subprocess once PortForward::start has returned a handle
ForwardStarted == "running"

\* the port-forward subprocess once stop() has sent the terminate signal and
\* awaited the exit
ForwardStopped == "stopped"

\* lines 117-118: PortForward::start(...).await?
PortForwardStart ==
    /\ run_pc = "port_forward"
    /\ \/ /\ forward' = ForwardStarted
          /\ run_pc' = "connect"
          /\ UNCHANGED <<result, errs>>
       \/ /\ run_pc' = "returned"
          /\ result' = "start_err"
          /\ errs' = Append(errs, "start_err")
          /\ UNCHANGED forward
    /\ UNCHANGED <<stop_calls, tr_state, fr_state, stdin_open, remote_open, pump_result>>
    /\ UNCHANGED outside_bridge

\* lines 124-128: TcpStream::connect(...).await.context(...)? ; on success pump
\* splits the stream and spawns its two tasks (proxy_io.rs 6-20)
Connect ==
    /\ run_pc = "connect"
    /\ \/ /\ run_pc' = "pump"
          /\ to_remote' = "copy"
          /\ from_remote' = "copy"
          /\ UNCHANGED <<result, errs>>
       \/ /\ run_pc' = "returned"
          /\ result' = "connect_err"
          /\ errs' = Append(errs, "connect_err")
          /\ UNCHANGED <<to_remote, from_remote>>
    /\ UNCHANGED <<forward, stop_calls, stdin_left, stdin_read, tr_eof, tr_buf, sock_sent,
                   wr_shutdown, remote_left, sock_recv, fr_eof, fr_buf, stdout_written,
                   flushed, stdin_open, remote_open, pump_result>>
    /\ UNCHANGED outside_bridge

\* a copy that stops as soon as it has read EOF
CopyDoneAtEof(eof, buf) == eof

\* tokio::io::copy returns Ok once it has read EOF and written all it read
CopyDone(eof, buf) == eof /\ buf = 0

\* proxy_io.rs 11: copy(&mut stdin, &mut writer), reading
ToRemoteRead ==
    /\ to_remote = "copy"
    /\ ~tr_eof
    /\ tr_buf < BufCap
    /\ \/ /\ stdin_left > 0
          /\ stdin_left' = stdin_left - 1
          /\ stdin_read' = stdin_read + 1
          /\ tr_buf' = tr_buf + 1
          /\ UNCHANGED tr_eof
       \/ /\ stdin_left = 0
          /\ ~stdin_open
          /\ tr_eof' = TRUE
          /\ UNCHANGED <<stdin_left, stdin_read, tr_buf>>
    /\ UNCHANGED <<run_state, to_remote, sock_sent, wr_shutdown, fr_state,
                   stdin_open, remote_open, pump_result, errs>>
    /\ UNCHANGED outside_bridge

\* proxy_io.rs 11: copy(&mut stdin, &mut writer), writing
ToRemoteWrite ==
    /\ to_remote = "copy"
    /\ tr_buf > 0
    /\ tr_buf' = tr_buf - 1
    /\ sock_sent' = sock_sent + 1
    /\ UNCHANGED <<run_state, to_remote, stdin_left, stdin_read, tr_eof, wr_shutdown,
                   fr_state, stdin_open, remote_open, pump_result, errs>>
    /\ UNCHANGED outside_bridge

\* proxy_io.rs 11-13: copy returns Ok; writer.shutdown().await?; Ok(())
ToRemoteShutdown ==
    /\ to_remote = "copy"
    /\ CopyDone(tr_eof, tr_buf)
    /\ wr_shutdown' = TRUE
    /\ to_remote' = "ok"
    /\ UNCHANGED <<run_state, stdin_left, stdin_read, tr_eof, tr_buf, sock_sent,
                   fr_state, stdin_open, remote_open, pump_result, errs>>
    /\ UNCHANGED outside_bridge

\* proxy_io.rs 11-12: the copy or the shutdown fails (`?`)
ToRemoteError ==
    /\ to_remote = "copy"
    /\ to_remote' = "err"
    /\ errs' = Append(errs, "to_remote_err")
    /\ UNCHANGED <<run_state, stdin_left, stdin_read, tr_eof, tr_buf, sock_sent,
                   wr_shutdown, fr_state, stdin_open, remote_open, pump_result>>
    /\ UNCHANGED outside_bridge

\* proxy_io.rs 17: copy(&mut reader, &mut stdout), reading
FromRemoteRead ==
    /\ from_remote = "copy"
    /\ ~fr_eof
    /\ fr_buf < BufCap
    /\ \/ /\ remote_left > 0
          /\ remote_left' = remote_left - 1
          /\ sock_recv' = sock_recv + 1
          /\ fr_buf' = fr_buf + 1
          /\ UNCHANGED fr_eof
       \/ /\ remote_left = 0
          /\ ~remote_open
          /\ fr_eof' = TRUE
          /\ UNCHANGED <<remote_left, sock_recv, fr_buf>>
    /\ UNCHANGED <<run_state, tr_state, from_remote, stdout_written, flushed,
                   stdin_open, remote_open, pump_result, errs>>
    /\ UNCHANGED outside_bridge

\* proxy_io.rs 17: copy(&mut reader, &mut stdout), writing
FromRemoteWrite ==
    /\ from_remote = "copy"
    /\ fr_buf > 0
    /\ fr_buf' = fr_buf - 1
    /\ stdout_written' = stdout_written + 1
    /\ UNCHANGED <<run_state, tr_state, from_remote, remote_left, sock_recv, fr_eof,
                   flushed, stdin_open, remote_open, pump_result, errs>>
    /\ UNCHANGED outside_bridge

\* proxy_io.rs 17-19: copy returns Ok; stdout.flush().await?; Ok(())
FromRemoteFlush ==
    /\ from_remote = "copy"
    /\ CopyDone(fr_eof, fr_buf)
    /\ flushed' = TRUE
    /\ from_remote' = "ok"
    /\ UNCHANGED <<run_state, tr_state, remote_left, sock_recv, fr_eof, fr_buf,
                   stdout_written, stdin_open, remote_open, pump_result, errs>>
    /\ UNCHANGED outside_bridge

\* proxy_io.rs 17-18: the copy or the flush fails (`?`)
FromRemoteError ==
    /\ from_remote = "copy"
    /\ from_remote' = "err"
    /\ errs' = Append(errs, "from_remote_err")
    /\ UNCHANGED <<run_state, tr_state, remote_left, sock_recv, fr_eof, fr_buf,
                   stdout_written, flushed, stdin_open, remote_open, pump_result>>
    /\ UNCHANGED outside_bridge

\* the caller closes stdin
StdinClose ==
    /\ stdin_open
    /\ stdin_open' = FALSE
    /\ UNCHANGED <<run_state, tr_state, fr_state, remote_open, pump_result, errs>>
    /\ UNCHANGED outside_bridge

\* the remote side closes its sending direction
RemoteClose ==
    /\ run_pc = "pump"
    /\ remote_open
    /\ remote_open' = FALSE
    /\ UNCHANGED <<run_state, tr_state, fr_state, stdin_open, pump_result, errs>>
    /\ UNCHANGED outside_bridge

\* a task handle that resolves for a task that returned Ok only
FinishedOk(task) == task = "ok"

\* the JoinHandle of the task resolves: the task returned Ok or Err
Finished(task) == task \in {"ok", "err"}

\* a join that completes with the first task
JoinEither(a, b) == Finished(a) \/ Finished(b)

\* proxy_io.rs 22: tokio::join!(to_remote, from_remote) completes
JoinBoth(a, b) == Finished(a) /\ Finished(b)

\* a pump that looks at the socket -> stdout task first
PumpResultSwapped(a, b) ==
    IF b = "err" THEN "from_remote_err" ELSE IF a = "err" THEN "to_remote_err" ELSE "ok"

\* proxy_io.rs 23-25: a??; b??; Ok(())
PumpResult(a, b) ==
    IF a = "err" THEN "to_remote_err" ELSE IF b = "err" THEN "from_remote_err" ELSE "ok"

\* proxy_io.rs 22-25 and proxy.rs 128: pump returns
PumpReturn ==
    /\ run_pc = "pump"
    /\ JoinBoth(to_remote, from_remote)
    /\ pump_result' = PumpResult(to_remote, from_remote)
    /\ run_pc' = "stop"
    /\ UNCHANGED <<forward, stop_calls, result, tr_state, fr_state,
                   stdin_open, remote_open, errs>>
    /\ UNCHANGED outside_bridge

\* proxy.rs 131-133: pump_result?; stop_result?; Ok(())
RunResult(p, st) == IF p # "ok" THEN p ELSE IF st # "ok" THEN st ELSE "ok"

\* proxy.rs 129-133: forward.stop().await, then the result of run
StopAndReturn ==
    /\ run_pc = "stop"
    /\ \E stop_result \in {"ok", "stop_err"} :
          /\ result' = RunResult(pump_result, stop_result)
          /\ errs' = IF stop_result = "ok" THEN errs ELSE Append(errs, stop_result)
    /\ forward' = ForwardStopped
    /\ stop_calls' = stop_calls + 1
    /\ run_pc' = "returned"
    /\ UNCHANGED <<tr_state, fr_state, stdin_open, remote_open, pump_result>>
    /\ UNCHANGED outside_bridge

NextBridge ==
    \/ PortForwardStart \/ Connect
    \/ ToRemoteRead \/ ToRemoteWrite \/ ToRemoteShutdown \/ ToRemoteError
    \/ FromRemoteRead \/ FromRemoteWrite \/ FromRemoteFlush \/ FromRemoteError
    \/ StdinClose \/ RemoteClose
    \/ PumpReturn \/ StopAndReturn

(***************************************************************************)
(* bundle::ensure_bundle (src/bundle.rs 33-135)                            *)
(***************************************************************************)

\* strings are sequences of tokens; these tokens are white space
IsSpace(t) == t \in {" ", "\n"}

RECURSIVE TrimStart(_)
TrimStart(str) ==
    IF str # <<>> /\ IsSpace(Head(str)) THEN TrimStart(Tail(str)) ELSE str

RECURSIVE TrimEnd(_)
TrimEnd(str) ==
    IF str # <<>> /\ IsSpace(str[Len(str)])
    THEN TrimEnd(SubSeq(str, 1, Len(str) - 1))
    ELSE str

\* a capture that hands the stdout on as it is
NoTrim(str) == str

\* str::trim
Trim(str) == TrimStart(TrimEnd(str))

\* BUNDLE_VERSION: concat!(env!("CARGO_PKG_VERSION"), "+sshd1")
BUNDLE_VERSION == <<"0.1.0">> \o <<"+sshd1">>
\* the marker an earlier release left
OLD_VERSION == <<"0.0.9">> \o <<"+sshd1">>

Archs == {<<"linux/amd64">>, <<"linux/arm64">>}

\* printf '%s\n' "STR" > FILE
Printf(str) == [exists |-> TRUE, data |-> str \o <<"\n">>]
NoFile == [exists |-> FALSE, data |-> <<>>]

None == [some |-> FALSE, val |-> <<>>]
Some(str) == [some |-> TRUE, val |-> str]

\* exec_capture_optional(["cat", path]): None when cat exits non-zero,
\* else the trimmed stdout
exec_capture_optional_cat(file) ==
    IF file.exists THEN Some(Trim(file.data)) ELSE None

\* bundle.rs 50: both markers read equal the bundle version and the arch
MarkersMatch(rv, ra, a) == rv = Some(BUNDLE_VERSION) /\ ra = Some(a)

\* the script of the attempt can run its decompressor
CanRun(r) ==
    CASE r = "xz" -> tools.sh /\ tools.xz
      [] r = "gzip" -> tools.sh /\ tools.gzip
      [] OTHER -> tools.sh

\* what BASE/bundle holds before the first call: nothing, the bundle of an
\* earlier release, the bundle of another arch, or this bundle
InitBundleFiles ==
    \/ version_file = NoFile /\ arch_file = NoFile /\ bundle_sshd = "absent"
    \/ version_file = Printf(OLD_VERSION) /\ arch_file = Printf(arch)
          /\ bundle_sshd = "old"
    \/ version_file = Printf(BUNDLE_VERSION) /\ arch_file \in {Printf(a) : a \in Archs \ {arch}}
          /\ bundle_sshd = "old"
    \/ version_file = Printf(BUNDLE_VERSION) /\ arch_file = Printf(arch)
          /\ bundle_sshd = "new"

InitBundleCallers ==
    /\ u_pc = [c \in Callers |-> "idle"]
    /\ remote_version = [c \in Callers |-> None]
    /\ remote_arch = [c \in Callers |-> None]
    /\ rung = [c \in Callers |-> "xz"]
    /\ n_exec = [c \in Callers |-> 0]
    /\ u_result = [c \in Callers |-> "none"]
    /\ u_runs = 0
    /\ found = [c \in Callers |-> FALSE]
    /\ after_ok = [c \in Callers |-> FALSE]
    /\ u_last_ok = FALSE
    /\ issued = [c \in Callers |-> <<>>]
    /\ won = [c \in Callers |-> "none"]

InitBundle ==
    /\ arch \in Archs
    /\ tools \in {t \in [sh : BOOLEAN, xz : BOOLEAN, gzip : BOOLEAN] :
                     ~t.sh => (~t.xz /\ ~t.gzip)}
    /\ payload \in {"missing", "ok", "corrupt"}
    /\ InitBundleFiles
    /\ InitBundleCallers

BundleParked ==
    /\ arch = <<"linux/amd64">>
    /\ tools = [sh |-> TRUE, xz |-> TRUE, gzip |-> TRUE]
    /\ payload = "ok"
    /\ version_file = NoFile /\ arch_file = NoFile /\ bundle_sshd = "absent"
    /\ InitBundleCallers

target == <<arch, tools, payload>>
markers == <<version_file, arch_file>>
u_hist == <<found, after_ok, u_last_ok>>
ladder == <<issued, won>>

UIdle(c) == u_pc[c] \in {"idle", "done"}

\* ensure_bundle is called (bundle.rs 33-42)
BundleStart(c) ==
    /\ UIdle(c)
    /\ u_runs < MaxCalls
    /\ u_runs' = u_runs + 1
    /\ u_pc' = [u_pc EXCEPT ![c] = "cat_version"]
    /\ remote_version' = [remote_version EXCEPT ![c] = None]
    /\ remote_arch' = [remote_arch EXCEPT ![c] = None]
    /\ rung' = [rung EXCEPT ![c] = "xz"]
    /\ n_exec' = [n_exec EXCEPT ![c] = 0]
    /\ u_result' = [u_result EXCEPT ![c] = "none"]
    /\ found' = [found EXCEPT ![c] = FALSE]
    /\ after_ok' = [d \in Callers |->
                      d = c /\ u_last_ok /\ \A e \in Callers : UIdle(e)]
    /\ issued' = [issued EXCEPT ![c] = <<>>]
    /\ won' = [won EXCEPT ![c] = "none"]
    /\ UNCHANGED <<target, markers, bundle_sshd, u_last_ok>>
    /\ UNCHANGED outside_bundle

\* bundle.rs 43-45: exec_capture_optional(["cat", version_path])
CatVersion(c) ==
    /\ u_pc[c] = "cat_version"
    /\ remote_version' = [remote_version EXCEPT ![c] = exec_capture_optional_cat(version_file)]
    /\ found' = [found EXCEPT ![c] = (version_file = Printf(BUNDLE_VERSION))]
    /\ u_pc' = [u_pc EXCEPT ![c] = "cat_arch"]
    /\ UNCHANGED <<target, markers, bundle_sshd, remote_arch, rung, n_exec,
                   u_result, u_runs, after_ok, u_last_ok, ladder>>
    /\ UNCHANGED outside_bundle

\* bundle.rs 46-52: exec_capture_optional(["cat", arch_path]), then the
\* comparison; when the markers do not match, bundle.rs 54-63 fetches the
\* payload (embedded::get_bundle, else locate_bundle(arch)? and the read)
CatArch(c) ==
    /\ u_pc[c] = "cat_arch"
    /\ remote_arch' = [remote_arch EXCEPT ![c] = exec_capture_optional_cat(arch_file)]
    /\ found' = [found EXCEPT ![c] = found[c] /\ arch_file = Printf(arch)]
    /\ IF MarkersMatch(remote_version[c], remote_arch'[c], arch)
       THEN /\ u_pc' = [u_pc EXCEPT ![c] = "done"]
            /\ u_result' = [u_result EXCEPT ![c] = "ok"]
            /\ u_last_ok' = TRUE
       ELSE IF payload # "missing"
            THEN /\ u_pc' = [u_pc EXCEPT ![c] = "exec"]
                 /\ UNCHANGED <<u_result, u_last_ok>>
            ELSE /\ u_pc' = [u_pc EXCEPT ![c] = "done"]
                 /\ u_result' = [u_result EXCEPT ![c] = "err"]
                 /\ u_last_ok' = FALSE
    /\ UNCHANGED <<target, markers, bundle_sshd, remote_version, rung, n_exec,
                   u_runs, after_ok, ladder>>
    /\ UNCHANGED outside_bundle

\* the attempts of the ladder in the order of bundle.rs 71-132
Ladder == <<"xz", "gzip", "plain">>

\* the attempt that skips gzip
NextRungSkip(r) == "plain"

\* the attempt after a failed one (bundle.rs 86-113)
NextRung(r) == IF r = "xz" THEN "gzip" ELSE "plain"

\* the remote script of the attempt runs to its end: the shell and the
\* decompressor are there, and xz -dc is fed a valid xz stream
ScriptRuns(r) == CanRun(r) /\ (r = "xz" => payload = "ok")

\* exec_with_input returned Err (bundle.rs 86-93, 109, 123-129): after the xz
\* attempt decompress_xz(&bundle_data)? runs locally and then the gzip attempt
\* follows; after the gzip attempt the plain one; after the plain attempt
\* ensure_bundle returns the error
AttemptFailed(c) ==
    IF rung[c] = "plain" \/ (rung[c] = "xz" /\ payload = "corrupt")
    THEN /\ u_pc' = [u_pc EXCEPT ![c] = "done"]
         /\ u_result' = [u_result EXCEPT ![c] = "err"]
         /\ u_last_ok' = FALSE
         /\ UNCHANGED rung
    ELSE /\ rung' = [rung EXCEPT ![c] = NextRung(rung[c])]
         /\ u_pc' = [u_pc EXCEPT ![c] = "exec"]
         /\ UNCHANGED <<u_result, u_last_ok>>

\* bundle.rs 75-83, 98-106, 114-122: exec_with_input(["sh", "-c", install]);
\* the script runs mkdir and chmod, and the shell opens BASE/bundle/sshd for
\* `xz -dc >`, `gzip -dc >` or `cat >`.  Without the decompressor the script
\* ends non-zero (set -eu) and the call returns Err.
ExecInstall(c) ==
    /\ u_pc[c] = "exec"
    /\ n_exec' = [n_exec EXCEPT ![c] = n_exec[c] + 1]
    /\ issued' = [issued EXCEPT ![c] = Append(issued[c], rung[c])]
    /\ bundle_sshd' = IF tools.sh THEN "empty" ELSE bundle_sshd
    /\ IF ScriptRuns(rung[c])
       THEN /\ u_pc' = [u_pc EXCEPT ![c] = "write"]
            /\ UNCHANGED <<rung, u_result, u_last_ok>>
       ELSE AttemptFailed(c)
    /\ UNCHANGED <<target, markers, remote_version, remote_arch, u_runs, found,
                   after_ok, won>>
    /\ UNCHANGED outside_bundle

\* the decompressor (or cat) writes the payload into BASE/bundle/sshd
WritePayload(c) ==
    /\ u_pc[c] \in {"write", "write_rest"}
    /\ IF u_pc[c] = "write"
       THEN /\ bundle_sshd' = "partial"
            /\ u_pc' = [u_pc EXCEPT ![c] = "write_rest"]
       ELSE /\ bundle_sshd' = "new"
            /\ u_pc' = [u_pc EXCEPT ![c] = "version"]
    /\ UNCHANGED <<target, markers, remote_version, remote_arch, rung, n_exec,
                   u_result, u_runs, u_hist, ladder>>
    /\ UNCHANGED outside_bundle

\* kubectl exec ends non-zero while the script is still writing (the
\* connection to the pod breaks): kubectl.rs 611-617 bails
ExecBreaks(c) ==
    /\ u_pc[c] \in {"write", "write_rest"}
    /\ AttemptFailed(c)
    /\ UNCHANGED <<target, markers, bundle_sshd, remote_version, remote_arch, n_exec,
                   u_runs, found, after_ok, ladder>>
    /\ UNCHANGED outside_bundle

\* bundle.rs 66: printf '%s\n' "{BUNDLE_VERSION}" > "{base}/bundle/VERSION"
WriteVersion(c) ==
    /\ u_pc[c] = "version"
    /\ version_file' = Printf(BUNDLE_VERSION)
    /\ u_pc' = [u_pc EXCEPT ![c] = "arch"]
    /\ UNCHANGED <<target, arch_file, bundle_sshd, remote_version, remote_arch, rung,
                   n_exec, u_result, u_runs, u_hist, ladder>>
    /\ UNCHANGED outside_bundle

\* bundle.rs 67-68: printf '%s\n' "{arch}" > "{base}/bundle/ARCH"; chmod; the
\* script ends with status 0 and ensure_bundle returns Ok (bundle.rs 85, 108, 134)
WriteArch(c) ==
    /\ u_pc[c] = "arch"
    /\ arch_file' = Printf(arch)
    /\ u_pc' = [u_pc EXCEPT ![c] = "done"]
    /\ u_result' = [u_result EXCEPT ![c] = "ok"]
    /\ u_last_ok' = TRUE
    /\ won' = [won EXCEPT ![c] = rung[c]]
    /\ UNCHANGED <<target, version_file, bundle_sshd, remote_version, remote_arch, rung,
                   n_exec, u_runs, found, after_ok, issued>>
    /\ UNCHANGED outside_bundle

NextBundle ==
    \E c \in Callers :
        \/ BundleStart(c) \/ CatVersion(c) \/ CatArch(c)
        \/ ExecInstall(c) \/ WritePayload(c) \/ ExecBreaks(c)
        \/ WriteVersion(c) \/ WriteArch(c)

(***************************************************************************)
(* proxy::run (src/proxy.rs 21-134): the stages of one invocation          *)
(***************************************************************************)

\* the calls of run in the order of the source; "bridge" stands for
\* TcpStream::connect, proxy_io::pump and forward.stop() (modelled above)
Stages == <<"parse", "context", "namespace", "pod", "pod_info", "container", "keys",
            "lock", "user", "arch", "bundle", "host_keys", "sshd", "forward", "bridge">>

StageIndex(st) == CHOOSE n \in 1..Len(Stages) : Stages[n] = st

\* the statement after the call of stage st
StageAfter(st) ==
    IF StageIndex(st) = Len(Stages) THEN "done" ELSE Stages[StageIndex(st) + 1]

ContainerNames == {<<"web">>, <<"db">>}
UserNames == {<<"alice">>, <<"app">>}
\* what `uname -m` prints: the four machines of bundle.rs 24-25, a machine
\* without a bundle, a name in capitals, nothing
UnameOutputs ==
    { <<"x86_64", "\n">>, <<"amd64", "\n">>, <<"aarch64", "\n">>, <<"arm64", "\n">>,
      <<"armv7l", "\n">>, <<"X86_64", "\n">>, <<"\n">> }

\* a result that decides whether the invocation goes on
Propagated(ok) == ok
\* a result that never ends the invocation
Discarded(ok) == TRUE

\* `call.await?`: the invocation goes on exactly when the call returned Ok
Question(ok) == ok

\* `let _ = call.await` (remote.rs 12-19): the invocation goes on whatever
\* the call returned
LetUnderscore(ok) == TRUE

\* the invocation after the call of stage st returned: on the way on, the
\* next call is started; else run returns the error
Return(c, st, on) ==
    IF on
    THEN IF StageAfter(st) = "done"
         THEN /\ r_pc' = [r_pc EXCEPT ![c] = "done"]
              /\ r_result' = [r_result EXCEPT ![c] = "ok"]
              /\ UNCHANGED r_trace
         ELSE /\ r_pc' = [r_pc EXCEPT ![c] = StageAfter(st)]
              /\ r_trace' = [r_trace EXCEPT ![c] = Append(r_trace[c], StageAfter(st))]
              /\ UNCHANGED r_result
    ELSE /\ r_pc' = [r_pc EXCEPT ![c] = "done"]
         /\ r_result' = [r_result EXCEPT ![c] = "err"]
         /\ UNCHANGED r_trace

\* a call followed by `?`
Try(c, st, ok) ==
    /\ r_pc[c] = st
    /\ r_failed' = [r_failed EXCEPT ![c] = IF ok THEN r_failed[c] ELSE st]
    /\ Return(c, st, Question(ok))

pod_state == <<containers, cuid, cuser, machine>>
r_inputs == <<host_container, login_user>>
r_counts == <<r_exec, r_input>>

InitProxy ==
    /\ containers \in {<<>>, <<<<"web">>>>, <<<<"db">>>>, <<<<"web">>, <<"db">>>>}
    /\ cuid \in {<<"0">>, <<"1000">>}
    /\ cuser \in {None} \cup {Some(u) : u \in UserNames}
    /\ lock_dir \in BOOLEAN
    /\ host_container \in [Callers -> {None} \cup {Some(n) : n \in ContainerNames}]
    /\ login_user \in [Callers -> UserNames]
    /\ \A c \in Callers : host_container[c] = host_container["c1"]
    /\ \A c \in Callers : login_user[c] = login_user["c1"]
    /\ r_pc = [c \in Callers |-> "idle"]
    /\ r_result = [c \in Callers |-> "none"]
    /\ container = [c \in Callers |-> None]
    /\ machine \in UnameOutputs
    \* the machines other than x86_64 are tried in a container that runs as
    \* root, with no lock directory yet
    /\ machine # <<"x86_64", "\n">> =>
          /\ cuid = <<"0">> /\ cuser = None /\ ~lock_dir
          /\ login_user["c1"] = <<"alice">>
    /\ r_arch = [c \in Callers |-> None]
    /\ r_trace = [c \in Callers |-> <<>>]
    /\ r_failed = [c \in Callers |-> "none"]
    /\ lock_out = [c \in Callers |-> "none"]
    /\ r_exec = [c \in Callers |-> FALSE]
    /\ r_input = [c \in Callers |-> FALSE]

ProxyParked ==
    /\ InitProxy
    /\ containers = <<<<"web">>>>
    /\ cuid = <<"0">>
    /\ cuser = None
    /\ machine = <<"x86_64", "\n">>
    /\ lock_dir = FALSE
    /\ host_container = [c \in Callers |-> None]
    /\ login_user = [c \in Callers |-> <<"alice">>]

\* proxy.rs 21-22: run is called
RunStart(c) ==
    /\ r_pc[c] = "idle"
    /\ r_pc' = [r_pc EXCEPT ![c] = "parse"]
    /\ r_trace' = [r_trace EXCEPT ![c] = <<"parse">>]
    /\ UNCHANGED <<pod_state, r_arch, lock_dir, r_inputs, r_result, container, r_failed, lock_out,
                   r_counts>>
    /\ UNCHANGED outside_run

\* the calls that touch nothing in the pod: hostspec::parse (proxy.rs 23),
\* ensure_context_exists (29), get_context_namespace (30-36), the pod choice
\* (41-49), get_pod_info (55-57), keys::ensure_key (79-84),
\* PortForward::start (117-118)
LocalStages == {"parse", "context", "namespace", "pod", "pod_info", "keys", "forward"}

LocalCall(c) ==
    /\ r_pc[c] \in LocalStages
    /\ \E ok \in BOOLEAN : Try(c, r_pc[c], ok)
    /\ UNCHANGED <<pod_state, r_arch, lock_dir, r_inputs, container, lock_out, r_counts>>
    /\ UNCHANGED outside_run

\* a choice that takes the first container of a pod with several
choose_first(hc, cs) ==
    IF hc.some
    THEN IF \E n \in 1..Len(cs) : cs[n] = hc.val THEN Some(hc.val) ELSE None
    ELSE IF Len(cs) >= 1 THEN Some(cs[1]) ELSE None

\* proxy.rs 59-74: Ok(name) or the bail!
choose_container(hc, cs) ==
    IF hc.some
    THEN IF \E n \in 1..Len(cs) : cs[n] = hc.val THEN Some(hc.val) ELSE None
    ELSE IF Len(cs) = 1 THEN Some(cs[1]) ELSE None

ChooseContainer(c) ==
    /\ container' = [container EXCEPT ![c] = choose_container(host_container[c], containers)]
    /\ Try(c, "container", container'[c].some)
    /\ UNCHANGED <<pod_state, r_arch, lock_dir, r_inputs, lock_out, r_counts>>
    /\ UNCHANGED outside_run

\* remote.rs 4-20: sh -c 'umask 077; mkdir "BASE/lock"' through
\* exec_capture_optional; mkdir fails when the directory is there, and the
\* exec itself may fail; `let _ =` drops all three outcomes
TryAcquireLock(c) ==
    /\ r_pc[c] = "lock"
    /\ \E exec_ok \in BOOLEAN :
         /\ lock_out' = [lock_out EXCEPT ![c] =
                IF ~exec_ok THEN "error" ELSE IF lock_dir THEN "exists" ELSE "created"]
         /\ lock_dir' = (lock_dir \/ exec_ok)
         /\ r_failed' = r_failed
         /\ Return(c, "lock", LetUnderscore(lock_out'[c] = "created"))
    /\ r_exec' = [r_exec EXCEPT ![c] = TRUE]
    /\ UNCHANGED <<pod_state, r_arch, r_inputs, container, r_input>>
    /\ UNCHANGED outside_run

\* what the container prints for `id -u` and `id -un`
IdU == cuid \o <<"\n">>
IdUn == IF cuser.some THEN Some(cuser.val \o <<"\n">>) ELSE None

\* the check that looks at the name only
name_only_allowed(user) == IdUn.some /\ Trim(IdUn.val) = user

\* remote.rs 22-46; `id -un` exits non-zero for a uid without a name, and
\* exec_capture(...)? then returns the error.  The two execs themselves are
\* taken to run (the container has `id`, kubectl reaches the pod).
assert_login_user_allowed(user) ==
    IF Trim(IdU) = <<"0">>
    THEN TRUE
    ELSE IdUn.some /\ Trim(IdUn.val) = user

AssertLoginUserAllowed(c) ==
    /\ Try(c, "user", assert_login_user_allowed(login_user[c]))
    /\ r_exec' = [r_exec EXCEPT ![c] = TRUE]
    /\ UNCHANGED <<pod_state, r_arch, lock_dir, r_inputs, container, lock_out, r_input>>
    /\ UNCHANGED outside_run

\* a detection that takes every machine it does not know for amd64
detect_remote_arch_default(exec_ok, stdout) ==
    IF ~exec_ok THEN None
    ELSE IF Trim(stdout) \in {<<"aarch64">>, <<"arm64">>} THEN Some(<<"linux/arm64">>)
    ELSE Some(<<"linux/amd64">>)

\* bundle.rs 14-31: exec_capture(["uname", "-m"])?, then the match on
\* machine.trim(); None stands for Err
detect_remote_arch(exec_ok, stdout) ==
    IF ~exec_ok THEN None
    ELSE IF Trim(stdout) \in {<<"x86_64">>, <<"amd64">>} THEN Some(<<"linux/amd64">>)
    ELSE IF Trim(stdout) \in {<<"aarch64">>, <<"arm64">>} THEN Some(<<"linux/arm64">>)
    ELSE None

\* proxy.rs 89-91: detect_remote_arch(...).await.context(...)?; the exec of
\* uname itself may fail
DetectRemoteArch(c) ==
    /\ \E exec_ok \in BOOLEAN :
         /\ r_arch' = [r_arch EXCEPT ![c] = detect_remote_arch(exec_ok, machine)]
         /\ Try(c, "arch", r_arch'[c].some)
    /\ r_exec' = [r_exec EXCEPT ![c] = TRUE]
    /\ UNCHANGED <<pod_state, lock_dir, r_inputs, container, lock_out, r_input>>
    /\ UNCHANGED outside_run

\* proxy.rs 93: ensure_bundle (modelled above): two reads, then k install
\* attempts; it returns Err after none (no payload), one (decompress_xz
\* failed) or three attempts
EnsureBundle(c) ==
    /\ \E k \in 0..Len(Ladder), ok \in BOOLEAN :
         /\ ok \/ k # 2
         /\ Try(c, "bundle", ok)
         /\ r_exec' = [r_exec EXCEPT ![c] = TRUE]
         /\ r_input' = [r_input EXCEPT ![c] = r_input[c] \/ k > 0]
    /\ UNCHANGED <<pod_state, r_arch, lock_dir, r_inputs, container, lock_out>>
    /\ UNCHANGED outside_run

\* proxy.rs 95: remote::install_host_keys writes the host key under
\* BASE/hostkeys when it is missing
InstallHostKeys(c) ==
    /\ \E ok \in BOOLEAN : Try(c, "host_keys", ok)
    /\ r_exec' = [r_exec EXCEPT ![c] = TRUE]
    /\ UNCHANGED <<pod_state, r_arch, lock_dir, r_inputs, container, lock_out, r_input>>
    /\ UNCHANGED outside_run

\* proxy.rs 98-108: ensure_sshd_running, one exec_with_input of the script
EnsureSshdRunning(c) ==
    /\ \E ok \in BOOLEAN : Try(c, "sshd", ok)
    /\ r_exec' = [r_exec EXCEPT ![c] = TRUE]
    /\ r_input' = [r_input EXCEPT ![c] = TRUE]
    /\ UNCHANGED <<pod_state, r_arch, lock_dir, r_inputs, container, lock_out>>
    /\ UNCHANGED outside_run

\* proxy.rs 124-133: connect, pump, stop and the result of run
Bridge(c) ==
    /\ \E ok \in BOOLEAN : Try(c, "bridge", ok)
    /\ UNCHANGED <<pod_state, r_arch, lock_dir, r_inputs, container, lock_out, r_counts>>
    /\ UNCHANGED outside_run

NextProxy ==
    \E c \in Callers :
        \/ RunStart(c) \/ LocalCall(c) \/ ChooseContainer(c)
        \/ TryAcquireLock(c) \/ AssertLoginUserAllowed(c) \/ DetectRemoteArch(c)
        \/ EnsureBundle(c) \/ InstallHostKeys(c) \/ EnsureSshdRunning(c) \/ Bridge(c)

(***************************************************************************)
(* kubectl::select_pod, is_ready, is_running (src/kubectl.rs 358-460)      *)
(***************************************************************************)

\* PodStatus.phase and PodStatus.conditions are Option fields (kubectl.rs 102-108)
NoPhase == [some |-> FALSE, val |-> ""]
Phase(ph) == [some |-> TRUE, val |-> ph]
NoConditions == [some |-> FALSE, val |-> <<>>]
Conditions(cs) == [some |-> TRUE, val |-> cs]
\* PodListItem.status is an Option field (kubectl.rs 90-94)
NoStatus == [some |-> FALSE, val |-> [phase |-> NoPhase, conditions |-> NoConditions]]
Status(ph, cs) == [some |-> TRUE, val |-> [phase |-> ph, conditions |-> cs]]

\* PodCondition (kubectl.rs 110-114)
Cond(t, st) == [type_name |-> t, status |-> st]

\* the statuses of the model: without status, without phase, Pending or
\* Running, each with conditions that are absent, empty, or hold Ready in
\* the first or the second place
PodStatuses ==
    { NoStatus,
      Status(NoPhase, Conditions(<<Cond("Ready", "True")>>)),
      Status(Phase("Pending"), NoConditions),
      Status(Phase("Pending"), Conditions(<<Cond("Ready", "True")>>)),
      Status(Phase("Running"), NoConditions),
      Status(Phase("Running"), Conditions(<<>>)),
      Status(Phase("Running"), Conditions(<<Cond("Ready", "False")>>)),
      Status(Phase("Running"), Conditions(<<Cond("Ready", "True")>>)),
      Status(Phase("Running"), Conditions(<<Cond("Initialized", "True"), Cond("Ready", "True")>>)) }

PodName(n) == <<"pod", n>>

\* the pod lists: the n-th item is named after its place
PodLists ==
    UNION { {[n \in 1..len |-> [name |-> PodName(n), status |-> st[n]]] :
                st \in [1..len -> PodStatuses]} : len \in 0..MaxPods }

\* an is_ready that does not look at the phase
is_ready_any_phase(pod) ==
    IF pod.status.some /\ pod.status.val.conditions.some
    THEN \E n \in 1..Len(pod.status.val.conditions.val) :
            /\ pod.status.val.conditions.val[n].type_name = "Ready"
            /\ pod.status.val.conditions.val[n].status = "True"
    ELSE FALSE

\* Option<bool>
NoBool == [some |-> FALSE, val |-> FALSE]
SomeBool(b) == [some |-> TRUE, val |-> b]

\* pod.status.as_ref().and_then(|s| s.phase.as_ref()).map(|p| p == "Running")
phase_is_running(pod) ==
    IF pod.status.some /\ pod.status.val.phase.some
    THEN SomeBool(pod.status.val.phase.val = "Running")
    ELSE NoBool

\* kubectl.rs 436-452
is_ready(pod) ==
    IF phase_is_running(pod) # SomeBool(TRUE)
    THEN FALSE
    ELSE IF pod.status.some /\ pod.status.val.conditions.some
         THEN \E n \in 1..Len(pod.status.val.conditions.val) :
                 /\ pod.status.val.conditions.val[n].type_name = "Ready"
                 /\ pod.status.val.conditions.val[n].status = "True"
         ELSE FALSE

\* kubectl.rs 454-460: .unwrap_or(false)
is_running(pod) ==
    IF phase_is_running(pod).some THEN phase_is_running(pod).val ELSE FALSE

\* iter().find(pred): the place of the first item that pred holds for, 0 for None
FindReady(list) ==
    IF \E n \in 1..Len(list) : is_ready(list[n])
    THEN CHOOSE n \in 1..Len(list) :
            is_ready(list[n]) /\ \A m \in 1..(n - 1) : ~is_ready(list[m])
    ELSE 0

FindRunning(list) ==
    IF \E n \in 1..Len(list) : is_running(list[n])
    THEN CHOOSE n \in 1..Len(list) :
            is_running(list[n]) /\ \A m \in 1..(n - 1) : ~is_running(list[m])
    ELSE 0

PodErr == [ok |-> FALSE, name |-> <<>>]
PodOk(name) == [ok |-> TRUE, name |-> name]

\* a choice that takes the first pod of the list
select_first(list) ==
    IF list = <<>> THEN PodErr ELSE PodOk(list[1].name)

\* kubectl.rs 375-399: the bail! on an empty list, then
\* find(is_ready).or_else(find(is_running)).or_else(first)
select_pod(list) ==
    IF list = <<>>
    THEN PodErr
    ELSE IF FindReady(list) # 0 THEN PodOk(list[FindReady(list)].name)
    ELSE IF FindRunning(list) # 0 THEN PodOk(list[FindRunning(list)].name)
    ELSE PodOk(list[1].name)

NoVerdict == [done |-> FALSE, ready |-> FALSE, running |-> FALSE]

InitPodsState ==
    /\ picked = <<>>
    /\ verdict = [n \in 1..MaxPods |-> NoVerdict]

InitPods ==
    /\ items \in PodLists
    /\ InitPodsState

PodsParked ==
    /\ items = <<>>
    /\ InitPodsState

\* select_pod is called with the list (kubectl.rs 358-400)
SelectPod ==
    /\ Len(picked) < MaxSelects
    /\ picked' = Append(picked, select_pod(items))
    /\ UNCHANGED <<items, verdict>>
    /\ UNCHANGED outside_pods

\* is_ready and is_running are called on the n-th pod (kubectl.rs 436-460),
\* pod after pod as iter() goes through the list
CheckPod(n) ==
    /\ n \in 1..Len(items)
    /\ ~verdict[n].done
    /\ \A m \in 1..(n - 1) : verdict[m].done
    /\ verdict' = [verdict EXCEPT ![n] =
            [done |-> TRUE, ready |-> is_ready(items[n]), running |-> is_running(items[n])]]
    /\ UNCHANGED <<items, picked>>
    /\ UNCHANGED outside_pods

NextPods ==
    \/ SelectPod
    \/ \E n \in 1..MaxPods : CheckPod(n)

(***************************************************************************)
(* hostspec::parse (src/hostspec.rs 28-104)                                *)
(*                                                                         *)
(* A hostname is modelled as the list of its labels, the pieces between    *)
(* its dots: "a.b." is <<a, b, empty>> and "" is <<empty>>.  A label is a  *)
(* list of pieces: a key prefix such as "pod--", a name, or both.          *)
(***************************************************************************)
EmptyLabel == <<>>
SuffixLabel == <<"sshpod">>

\* host + "."
AddDot(h) == Append(h, EmptyLabel)

\* a trim that takes one dot off the end
strip_one_dot(h) ==
    IF Len(h) > 1 /\ h[Len(h)] = EmptyLabel THEN SubSeq(h, 1, Len(h) - 1) ELSE h

\* host.trim_end_matches('.') (hostspec.rs 29)
RECURSIVE trim_end_dots(_)
trim_end_dots(h) ==
    IF Len(h) > 1 /\ h[Len(h)] = EmptyLabel
    THEN trim_end_dots(SubSeq(h, 1, Len(h) - 1))
    ELSE h

\* a test of the suffix that takes "sshpod" without a dot before it
HasSuffixNoDot(h) == Len(h) >= 1 /\ h[Len(h)] = SuffixLabel

\* trimmed.strip_suffix(".sshpod") (hostspec.rs 30-32)
HasSuffix(h) == Len(h) > 1 /\ h[Len(h)] = SuffixLabel
WithoutSuffix(h) == SubSeq(h, 1, Len(h) - 1)

\* token.strip_prefix(key)
strip_prefix(token, k) ==
    IF token # <<>> /\ token[1] = k THEN Some(Tail(token)) ELSE None

\* Target (hostspec.rs 11-16) and the results of parse
NoTarget == [kind |-> "none", name |-> <<>>]
Target(kind, name) == [kind |-> kind, name |-> name]

HostSpecError(kind) ==
    [ok |-> FALSE, err |-> kind, target |-> NoTarget, namespace |-> None,
     context |-> <<>>, container |-> None]
MissingSuffix == HostSpecError("MissingSuffix")
InvalidFormat == HostSpecError("InvalidFormat")

HostSpec(t, ns, ctx, ctr) ==
    [ok |-> TRUE, err |-> "none", target |-> t, namespace |-> ns,
     context |-> ctx, container |-> ctr]

\* hostspec.rs 81-104: NoTarget stands for Err(InvalidFormat)
parse_target(token) ==
    IF token = <<>> THEN NoTarget
    ELSE IF strip_prefix(token, "pod--").some
    THEN IF strip_prefix(token, "pod--").val = <<>> THEN NoTarget
         ELSE Target("Pod", strip_prefix(token, "pod--").val)
    ELSE IF strip_prefix(token, "deployment--").some
    THEN IF strip_prefix(token, "deployment--").val = <<>> THEN NoTarget
         ELSE Target("Deployment", strip_prefix(token, "deployment--").val)
    ELSE IF strip_prefix(token, "job--").some
    THEN IF strip_prefix(token, "job--").val = <<>> THEN NoTarget
         ELSE Target("Job", strip_prefix(token, "job--").val)
    ELSE Target("Pod", token)

\* parts.get(idx), idx counted from 0
Get(parts, idx) == IF idx < Len(parts) THEN Some(parts[idx + 1]) ELSE None

\* a walk of the parts that takes the context token as optional: without
\* one the context is left empty
parse_parts_context_optional(parts) ==
    LET first == IF Get(parts, 0).some
                 THEN strip_prefix(Get(parts, 0).val, "container--") ELSE None
        idx1 == IF first.some THEN 1 ELSE 0
        target_token == Get(parts, idx1)
        idx2 == idx1 + 1
        ns == IF Get(parts, idx2).some
              THEN strip_prefix(Get(parts, idx2).val, "namespace--") ELSE None
        idx3 == IF ns.some THEN idx2 + 1 ELSE idx2
        ctx == IF Get(parts, idx3).some
               THEN strip_prefix(Get(parts, idx3).val, "context--") ELSE None
        idx4 == IF ctx.some THEN idx3 + 1 ELSE idx3
    IN  IF first.some /\ first.val = <<>> THEN InvalidFormat
        ELSE IF ~target_token.some THEN InvalidFormat
        ELSE IF ns.some /\ ns.val = <<>> THEN InvalidFormat
        ELSE IF idx4 # Len(parts) THEN InvalidFormat
        ELSE IF ctx.some /\ ctx.val = <<>> THEN InvalidFormat
        ELSE IF parse_target(target_token.val) = NoTarget THEN InvalidFormat
        ELSE HostSpec(parse_target(target_token.val), ns,
                      IF ctx.some THEN ctx.val ELSE <<>>, first)

\* hostspec.rs 34-78, from the parts on
parse_parts(parts) ==
    LET first == IF Get(parts, 0).some
                 THEN strip_prefix(Get(parts, 0).val, "container--") ELSE None
        idx1 == IF first.some THEN 1 ELSE 0
        target_token == Get(parts, idx1)
        idx2 == idx1 + 1
        ns == IF Get(parts, idx2).some
              THEN strip_prefix(Get(parts, idx2).val, "namespace--") ELSE None
        idx3 == IF ns.some THEN idx2 + 1 ELSE idx2
        context_token == Get(parts, idx3)
        idx4 == idx3 + 1
    IN  IF first.some /\ first.val = <<>> THEN InvalidFormat
        ELSE IF ~target_token.some THEN InvalidFormat
        ELSE IF ns.some /\ ns.val = <<>> THEN InvalidFormat
        ELSE IF ~context_token.some THEN InvalidFormat
        ELSE IF idx4 # Len(parts) THEN InvalidFormat
        ELSE IF ~strip_prefix(context_token.val, "context--").some THEN InvalidFormat
        ELSE IF strip_prefix(context_token.val, "context--").val = <<>> THEN InvalidFormat
        ELSE IF parse_target(target_token.val) = NoTarget THEN InvalidFormat
        ELSE HostSpec(parse_target(target_token.val), ns,
                      strip_prefix(context_token.val, "context--").val, first)

\* the ways to put n tokens in another order
Orders(n) ==
    {f \in [1..n -> 1..n] : \A a, b \in 1..n : f[a] = f[b] => a = b}

\* the tokens in the order f
InOrder(parts, f) == [n \in 1..Len(parts) |-> parts[f[n]]]

\* a parse that takes the tokens in any order
parse_any_order(h) ==
    IF ~HasSuffix(trim_end_dots(h))
    THEN MissingSuffix
    ELSE LET parts == WithoutSuffix(trim_end_dots(h))
             good == {f \in Orders(Len(parts)) : parse_parts(InOrder(parts, f)).ok}
         IN IF good = {} THEN InvalidFormat
            ELSE parse_parts(InOrder(parts, CHOOSE f \in good : TRUE))

\* a parse that takes one dot off the end
parse_one_dot(h) ==
    IF ~HasSuffix(strip_one_dot(h))
    THEN MissingSuffix
    ELSE parse_parts(WithoutSuffix(strip_one_dot(h)))

\* a parse that falls back to the context "a" when the hostname names none
parse_default_context(h) ==
    IF ~HasSuffix(trim_end_dots(h))
    THEN MissingSuffix
    ELSE IF parse_parts(WithoutSuffix(trim_end_dots(h))).ok
    THEN parse_parts(WithoutSuffix(trim_end_dots(h)))
    ELSE parse_parts(Append(WithoutSuffix(trim_end_dots(h)), <<"context--", "a">>))

\* hostspec.rs 28-79
parse(h) ==
    IF ~HasSuffix(trim_end_dots(h))
    THEN MissingSuffix
    ELSE parse_parts(WithoutSuffix(trim_end_dots(h)))

\* the labels the hostnames of the model are made of
Labels ==
    { EmptyLabel, SuffixLabel, <<"a">>,
      <<"container--", "a">>, <<"container--">>,
      <<"namespace--", "a">>,
      <<"context--", "a">>, <<"context--", "b">>, <<"context--">>,
      <<"pod--", "b">>, <<"deployment--", "b">>, <<"job--", "b">> }

\* the ends of the hostnames: nothing, the suffix, the suffix and dots
Tails ==
    { <<>>, <<SuffixLabel>>, <<SuffixLabel, EmptyLabel>>,
      <<SuffixLabel, EmptyLabel, EmptyLabel>> }

Hosts ==
    { body \o tail :
        body \in UNION {[1..n -> Labels] : n \in 0..MaxTokens}, tail \in Tails } \ {<<>>}

NotCalled == [called |-> FALSE, res |-> InvalidFormat]
Returned(res) == [called |-> TRUE, res |-> res]
NotReordered == [called |-> FALSE, host |-> <<>>, res |-> InvalidFormat]
NotRun == [called |-> FALSE, failed |-> FALSE, ensured |-> None, context |-> None]

InitParseState ==
    /\ parsed = NotCalled
    /\ dotted = NotCalled
    /\ reordered = NotReordered
    /\ run_head = NotRun

InitParse ==
    /\ host \in Hosts
    /\ InitParseState

ParseParked ==
    /\ host = <<EmptyLabel>>
    /\ InitParseState

\* parse(host) is called
Parse ==
    /\ ~parsed.called
    /\ parsed' = Returned(parse(host))
    /\ UNCHANGED <<host, dotted, reordered, run_head>>
    /\ UNCHANGED outside_parse

\* parse(host + ".") is called
ParseDotted ==
    /\ parsed.called /\ ~dotted.called
    /\ dotted' = Returned(parse(AddDot(host)))
    /\ UNCHANGED <<host, parsed, reordered, run_head>>
    /\ UNCHANGED outside_parse

\* the tokens of host before the suffix, and what follows them
TokensOf(h) == WithoutSuffix(trim_end_dots(h))
AfterTokens(h) == SubSeq(h, Len(TokensOf(h)) + 1, Len(h))

\* parse is called with the tokens of an accepted host in another order
ParseReordered ==
    /\ parsed.called /\ parsed.res.ok /\ ~reordered.called
    /\ \E f \in Orders(Len(TokensOf(host))) :
         LET h == InOrder(TokensOf(host), f) \o AfterTokens(host)
         IN reordered' = [called |-> TRUE, host |-> h, res |-> parse(h)]
    /\ UNCHANGED <<host, parsed, dotted, run_head>>
    /\ UNCHANGED outside_parse

\* proxy.rs 23-39: run parses args.host and returns the error of parse; else
\* it calls ensure_context_exists(&host.context) and keeps
\* Some(host.context) as the context of every kubectl call that follows
RunHead ==
    /\ ~run_head.called
    /\ run_head' =
         IF ~parse(host).ok
         THEN [called |-> TRUE, failed |-> TRUE, ensured |-> None, context |-> None]
         ELSE [called |-> TRUE, failed |-> FALSE,
               ensured |-> Some(parse(host).context),
               context |-> Some(parse(host).context)]
    /\ UNCHANGED <<host, parsed, dotted, reordered>>
    /\ UNCHANGED outside_parse

NextParse == Parse \/ ParseDotted \/ ParseReordered \/ RunHead

(***************************************************************************)
(* kubectl::to_selector (src/kubectl.rs 402-434) and the selector of a job  *)
(* (choose_pod_for_job, src/kubectl.rs 339-354)                            *)
(*                                                                         *)
(* matchLabels is a map: it is modelled as the list of its entries <<k, v>> *)
(* with one entry per key, and the order in which a HashMap hands them out *)
(* is any order of that list.  A selector string is the list of its pieces. *)
(***************************************************************************)
MatchExpression(k, op, vs) == [key |-> k, operator |-> op, values |-> vs]
LabelSelector(ml, me) == [match_labels |-> ml, match_expressions |-> me]

\* parts.join(sep)
RECURSIVE Join(_, _)
Join(parts, sep) ==
    IF parts = <<>> THEN <<>>
    ELSE IF Len(parts) = 1 THEN parts[1]
    ELSE parts[1] \o <<sep>> \o Join(Tail(parts), sep)

SelectorErr(msg) == [ok |-> FALSE, text |-> <<>>, err |-> msg]
SelectorOk(text) == [ok |-> TRUE, text |-> text, err |-> ""]

\* expr.values.join(",")
JoinValues(values) == Join([n \in 1..Len(values) |-> <<values[n]>>], ",")

\* kubectl.rs 408-428: the arms of the match on expr.operator
expression_part(expr) ==
    IF expr.operator = "In"
    THEN IF expr.values = <<>>
         THEN SelectorErr("matchExpressions In requires values")
         ELSE SelectorOk(<<expr.key, " in (">> \o JoinValues(expr.values) \o <<")">>)
    ELSE IF expr.operator = "NotIn"
    THEN IF expr.values = <<>>
         THEN SelectorErr("matchExpressions NotIn requires values")
         ELSE SelectorOk(<<expr.key, " notin (">> \o JoinValues(expr.values) \o <<")">>)
    ELSE IF expr.operator = "Exists"
    THEN SelectorOk(<<expr.key>>)
    ELSE IF expr.operator = "DoesNotExist"
    THEN SelectorOk(<<"!", expr.key>>)
    ELSE SelectorErr("unsupported matchExpression operator")

\* kubectl.rs 404-406: one part k=v per entry, in the order f of the map
label_parts(ml, f) == [n \in 1..Len(ml) |-> <<ml[f[n]][1], "=", ml[f[n]][2]>>]

\* a rendering that leaves the matchExpressions out
to_selector_labels_only(sel, f) ==
    IF label_parts(sel.match_labels, f) = <<>>
    THEN SelectorErr("label selector is empty")
    ELSE SelectorOk(Join(label_parts(sel.match_labels, f), ","))

\* kubectl.rs 402-434; the first bail! of the loop ends the call
to_selector(sel, f) ==
    LET me == sel.match_expressions
        arms == [n \in 1..Len(me) |-> expression_part(me[n])]
        bad == {n \in 1..Len(me) : ~arms[n].ok}
        parts == label_parts(sel.match_labels, f) \o [n \in 1..Len(me) |-> arms[n].text]
    IN  IF bad # {}
        THEN arms[CHOOSE n \in bad : \A m \in bad : n <= m]
        ELSE IF parts = <<>>
        THEN SelectorErr("label selector is empty")
        ELSE SelectorOk(Join(parts, ","))

\* Job (kubectl.rs 61-82): spec.selector and spec.template.metadata are
\* Options, metadata.labels defaults to the empty map
NoSelector == [some |-> FALSE, val |-> LabelSelector(<<>>, <<>>)]
SomeSelector(sel) == [some |-> TRUE, val |-> sel]
NoMetadata == [some |-> FALSE, labels |-> <<>>]
Metadata(labels) == [some |-> TRUE, labels |-> labels]
Job(name, sel, meta) == [name |-> name, selector |-> sel, metadata |-> meta]

\* kubectl.rs 341-354: the selector of choose_pod_for_job; f and g are the
\* orders of the two maps
job_selector(jb, f, g) ==
    IF jb.selector.some
    THEN to_selector(jb.selector.val, f)
    ELSE IF jb.metadata.some
    THEN IF jb.metadata.labels = <<>>
         THEN SelectorOk(<<"job-name=", jb.name>>)
         ELSE to_selector(LabelSelector(jb.metadata.labels, <<>>), g)
    ELSE SelectorOk(<<"job-name=", jb.name>>)

\* the maps, expressions and selectors of the model
LabelMaps ==
    { <<>>, << <<"app", "web">> >>, << <<"tier", "db">> >>,
      << <<"app", "web">>, <<"tier", "db">> >> }

Operators == {"In", "NotIn", "Exists", "DoesNotExist", "Gt"}
ValueLists == {<<>>, <<"v1">>, <<"v1", "v2">>}

MatchExpressions ==
    {MatchExpression("env", op, vs) : op \in Operators, vs \in ValueLists}

Selectors ==
    { LabelSelector(ml, me) :
        ml \in LabelMaps,
        me \in UNION {[1..n -> MatchExpressions] : n \in 0..MaxExprs} }

JobName == "backup"

NotRendered == [called |-> FALSE, res |-> SelectorErr("")]
Rendered(res) == [called |-> TRUE, res |-> res]

InitSelectorState ==
    /\ rendered = NotRendered
    /\ job_rendered = NotRendered

\* the selector of the job, when it has one, is the selector rendered alone
InitSelector ==
    /\ selector \in Selectors
    /\ job \in { Job(JobName, sel, meta) :
                    sel \in {NoSelector, SomeSelector(selector)},
                    meta \in {NoMetadata} \cup {Metadata(ml) : ml \in LabelMaps} }
    /\ InitSelectorState

SelectorParked ==
    /\ selector = LabelSelector(<<>>, <<>>)
    /\ job = Job(JobName, NoSelector, NoMetadata)
    /\ InitSelectorState

\* to_selector(&selector) is called (kubectl.rs 315)
ToSelector ==
    /\ ~rendered.called
    /\ \E f \in Orders(Len(selector.match_labels)) :
         rendered' = Rendered(to_selector(selector, f))
    /\ UNCHANGED <<selector, job, job_rendered>>
    /\ UNCHANGED outside_selector

\* choose_pod_for_job comes to the selector it hands to select_pod
\* (kubectl.rs 339-355)
JobSelector ==
    /\ ~job_rendered.called
    /\ \E f \in Orders(Len(job.selector.val.match_labels)),
          g \in Orders(Len(job.metadata.labels)) :
         job_rendered' = Rendered(job_selector(job, f, g))
    /\ UNCHANGED <<selector, job, rendered>>
    /\ UNCHANGED outside_selector

NextSelector == ToSelector \/ JobSelector

(***************************************************************************)
(* Specifications                                                          *)
(***************************************************************************)
InitRace == InitScript /\ BridgeParked /\ BundleParked /\ ProxyParked /\ PodsParked /\ ParseParked /\ SelectorParked
SpecScript == InitRace /\ [][NextScript]_vars

InitSeq == InitScript /\ BridgeParked /\ BundleParked /\ ProxyParked /\ PodsParked /\ ParseParked /\ SelectorParked
SpecScriptSeq == InitSeq /\ [][NextScriptSeq]_vars

InitRun == ScriptParked /\ InitBridge /\ BundleParked /\ ProxyParked /\ PodsParked /\ ParseParked /\ SelectorParked
SpecBridge == InitRun /\ [][NextBridge]_vars

\* the tokio runtime runs every task that can take a step: the steps of run
\* and of the two copies are taken when they stay possible.  The caller and
\* the remote side close when they choose to, and an I/O error may or may
\* not happen.
BridgeFairness ==
    /\ WF_vars(PortForwardStart) /\ WF_vars(Connect)
    /\ WF_vars(ToRemoteRead) /\ WF_vars(ToRemoteWrite) /\ WF_vars(ToRemoteShutdown)
    /\ WF_vars(FromRemoteRead) /\ WF_vars(FromRemoteWrite) /\ WF_vars(FromRemoteFlush)
    /\ WF_vars(PumpReturn) /\ WF_vars(StopAndReturn)
SpecBridgeFair == InitRun /\ [][NextBridge]_vars /\ BridgeFairness

InitInstall == ScriptParked /\ BridgeParked /\ InitBundle /\ ProxyParked /\ PodsParked /\ ParseParked /\ SelectorParked
SpecBundle == InitInstall /\ [][NextBundle]_vars

InitInvocations == ScriptParked /\ BridgeParked /\ BundleParked /\ InitProxy /\ PodsParked /\ ParseParked /\ SelectorParked
SpecProxy == InitInvocations /\ [][NextProxy]_vars

InitPodList == ScriptParked /\ BridgeParked /\ BundleParked /\ ProxyParked /\ InitPods /\ ParseParked /\ SelectorParked
SpecPods == InitPodList /\ [][NextPods]_vars

InitHostname ==
    ScriptParked /\ BridgeParked /\ BundleParked /\ ProxyParked /\ PodsParked /\ InitParse
        /\ SelectorParked
SpecParse == InitHostname /\ [][NextParse]_vars

InitSelectors ==
    ScriptParked /\ BridgeParked /\ BundleParked /\ ProxyParked /\ PodsParked /\ ParseParked
        /\ InitSelector
SpecSelector == InitSelectors /\ [][NextSelector]_vars

(***************************************************************************)
(* Properties of START_SSHD_SCRIPT                                         *)
(***************************************************************************)

\* number of lines of the file equal to the given line
Count(line, file) == Cardinality({n \in 1..Len(file) : file[n] = line})

AllDone == \A c \in Callers : pc[c] = "done"

\* C1: when invocations run one after another, after every successful
\* invocation BASE/authorized_keys holds exactly one line equal to the
\* caller's key, and no key is there twice.
C1_ExactlyOneLine ==
    /\ \A c \in Callers :
          (pc[c] = "done" /\ rc[c] = "ok") => Count(key[c], authorized_keys) = 1
    /\ \A k \in Keys : Count(k, authorized_keys) <= 1

\* three successful invocations with the same key have run; one line
C1_Witness ==
    /\ runs >= 3
    /\ AllDone
    /\ \A c \in Callers : rc[c] = "ok" /\ key[c] = "k1"
    /\ authorized_keys = <<"k1">>

\* C2: under every interleaving of concurrent callers, no key line is in
\* BASE/authorized_keys more than once.
C2_NeverDuplicated == \A k \in Keys : Count(k, authorized_keys) <= 1

\* C3: a line present in BASE/authorized_keys is present in every later state.
C3_NeverRemoved ==
    [][\A k \in Keys :
          GrepLine(k, authorized_keys) => GrepLine(k, authorized_keys')]_vars

\* C8: an invocation that follows a successful one and finds the process
\* named in sshd.pid alive and sshd.port present returns the port of the
\* earlier call, launches no sshd and leaves sshd.pid, sshd.port and
\* sshd_config as they were.
C8_SecondCallReuses ==
    \A c \in Callers :
        (/\ pc[c] = "done"
         /\ prev.who = c
         /\ prev.ok
         /\ prev.port # 0
         /\ KillZero(prev.pid))
        => /\ rc[c] = "ok"
           /\ out[c] = prev.out
           /\ Len(daemons) = prev.nd
           /\ sshd_pid = prev.pid
           /\ sshd_port = prev.port
           /\ sshd_config = prev.config

\* a second call has returned the first call's port by the fast path
C8_Witness ==
    \E c \in Callers :
        /\ pc[c] = "done" /\ prev.who = c /\ prev.ok /\ KillZero(prev.pid)
        /\ runs >= 2 /\ i[c] = 0 /\ rc[c] = "ok"
        /\ out[c] = prev.out /\ out[c] # 0

\* running daemons other than the one sshd.pid names
Surplus == {d \in 1..Len(daemons) : daemons[d].st = "listening" /\ d # sshd_pid}

\* C9: when two callers have raced and both have returned, at most one
\* surplus daemon is running.
C9_AtMostOneSurplus == AllDone => Cardinality(Surplus) <= 1

(***************************************************************************)
(* Properties of the bridge stage                                          *)
(***************************************************************************)

PumpStarted == to_remote # "idle"

\* C4: once the port-forward has been started, run does not return without
\* having called stop(), and no port-forward subprocess is left running.
C4_StopOnEveryExit ==
    (run_pc = "returned" /\ forward # "none")
        => (stop_calls >= 1 /\ forward = ForwardStopped)

\* C5: once pump has started, run goes on to stop() and returns only after
\* both copy tasks have finished, and it has then called stop() exactly once,
\* whether pump succeeded or failed.
C5_JoinThenStopOnce ==
    /\ (PumpStarted /\ run_pc \in {"stop", "returned"})
          => (Finished(to_remote) /\ Finished(from_remote))
    /\ (PumpStarted /\ run_pc = "returned") => stop_calls = 1
    /\ run_pc # "returned" => stop_calls = 0

\* run has returned after a pump in which the stdin -> socket task failed
C5_Witness ==
    /\ run_pc = "returned"
    /\ to_remote = "err"
    /\ from_remote = "ok"
    /\ pump_result = "to_remote_err"
    /\ stop_calls = 1

\* C6 as claimed: the result is success exactly when the two copy tasks and
\* stop() succeeded, and otherwise the error that occurred first in time.
C6_FirstErrorInTime ==
    (run_pc = "returned" /\ PumpStarted)
        => result = (IF errs = <<>> THEN "ok" ELSE errs[1])

Occurred(e) == \E n \in 1..Len(errs) : errs[n] = e

\* C6 as amended: the result is success exactly when the two copy tasks and
\* stop() succeeded, and otherwise the error of the first that failed in the
\* order stdin -> socket task, socket -> stdout task, stop().
C6_FirstErrorInOrder ==
    (run_pc = "returned" /\ PumpStarted)
        => /\ (result = "ok") <=> (errs = <<>>)
           /\ Occurred("to_remote_err") => result = "to_remote_err"
           /\ (Occurred("from_remote_err") /\ ~Occurred("to_remote_err"))
                 => result = "from_remote_err"
           /\ (Occurred("stop_err") /\ ~Occurred("from_remote_err")
                 /\ ~Occurred("to_remote_err")) => result = "stop_err"

\* the socket -> stdout task failed first, the stdin -> socket task after it
C6_Witness ==
    /\ run_pc = "returned"
    /\ errs = <<"from_remote_err", "to_remote_err">>
    /\ result = "to_remote_err"

\* C7: the write side of the socket is shut down only after stdin has
\* reached EOF and every byte read from stdin has been written; the
\* socket -> stdout task ends well only after the socket has reached EOF and
\* all it read is written and stdout is flushed, so a pump that returns Ok
\* has flushed stdout.
C7_HalfCloseAfterDrain ==
    /\ wr_shutdown => (tr_eof /\ tr_buf = 0 /\ sock_sent = stdin_read)
    /\ from_remote = "ok" => (fr_eof /\ fr_buf = 0 /\ stdout_written = sock_recv /\ flushed)
    /\ flushed => fr_eof
    /\ pump_result = "ok" => (wr_shutdown /\ flushed)

\* stdin was closed after some bytes, the socket half-closed, the remote
\* side sent its bytes and closed, and pump returned Ok
C7_Witness ==
    /\ pump_result = "ok"
    /\ wr_shutdown
    /\ stdin_read >= 2
    /\ sock_sent = stdin_read
    /\ sock_recv >= 1
    /\ flushed

(***************************************************************************)
(* Properties of ensure_bundle                                             *)
(***************************************************************************)

C11_LadderInOrder ==
    \A c \in Callers :
        /\ Len(issued[c]) <= 3
        /\ issued[c] = SubSeq(Ladder, 1, Len(issued[c]))
        /\ n_exec[c] = Len(issued[c])
        /\ won[c] # "none" =>
              /\ issued[c] # <<>>
              /\ won[c] = issued[c][Len(issued[c])]
              /\ u_pc[c] = "done"
        /\ (u_pc[c] = "done" /\ ~MarkersMatch(remote_version[c], remote_arch[c], arch)) =>
              (u_result[c] = "ok" <=> won[c] # "none")
        /\ won[c] = "plain" => n_exec[c] = 3

\* a call that found no matching markers, saw xz and gzip fail and
\* installed by the plain attempt
C11_Witness ==
    \E c \in Callers :
        /\ u_pc[c] = "done" /\ u_result[c] = "ok"
        /\ ~MarkersMatch(remote_version[c], remote_arch[c], arch)
        /\ issued[c] = Ladder /\ won[c] = "plain"
        /\ version_file = Printf(BUNDLE_VERSION) /\ arch_file = Printf(arch)

(***************************************************************************)
(* Properties of proxy::run                                                *)
(***************************************************************************)
Started(c, st) == \E n \in 1..Len(r_trace[c]) : r_trace[c][n] = st

LastStarted(c) == r_trace[c][Len(r_trace[c])]

\* C12: the stages an invocation has started are an initial part of the
\* fixed order (none skipped, none started twice), with the container choice
\* before the bundle, the bundle before the sshd script and the sshd script
\* before the port-forward and the bridge; a stage that returned an error is
\* the last one started and run returns that error; run returns Ok only
\* after every stage.
C12_StagesInOrder ==
    /\ StageIndex("container") < StageIndex("bundle")
    /\ StageIndex("bundle") < StageIndex("sshd")
    /\ StageIndex("sshd") < StageIndex("forward")
    /\ StageIndex("forward") < StageIndex("bridge")
    /\ \A c \in Callers :
        /\ Len(r_trace[c]) <= Len(Stages)
        /\ r_trace[c] = SubSeq(Stages, 1, Len(r_trace[c]))
        /\ Started(c, "bundle") => container[c].some
        /\ r_failed[c] # "none" =>
              /\ r_pc[c] = "done" /\ r_result[c] = "err"
              /\ LastStarted(c) = r_failed[c]
        /\ r_result[c] = "err" => r_failed[c] # "none"
        /\ r_result[c] = "ok" => r_trace[c] = Stages

\* one invocation ran every stage and returned Ok, another stopped at a
\* failed bundle installation
C12_Witness ==
    \E c, d \in Callers :
        /\ r_result[c] = "ok" /\ r_trace[c] = Stages
        /\ r_result[d] = "err" /\ r_failed[d] = "bundle" /\ LastStarted(d) = "bundle"

BootstrapStages == {"user", "arch", "bundle", "host_keys", "sshd"}

\* C14: whatever mkdir BASE/lock did (created the directory, found it there,
\* or the exec failed), the invocation went on to the login-user check; the
\* lock is never the stage that failed, and an invocation at the lock always
\* has a step to take.
C14_LockNeverBlocks ==
    \A c \in Callers :
        /\ lock_out[c] # "none" => Started(c, "user")
        /\ Started(c, "user") => lock_out[c] # "none"
        /\ r_failed[c] # "lock"
        /\ r_pc[c] = "lock" => ENABLED TryAcquireLock(c)

\* two invocations are inside bootstrap at the same time, one of which found
\* the lock of the other
C14_Witness ==
    \E c, d \in Callers :
        /\ c # d
        /\ lock_out[c] = "created" /\ lock_out[d] = "exists"
        /\ r_pc[c] \in BootstrapStages /\ r_pc[d] \in BootstrapStages

InPod(name) == \E n \in 1..Len(containers) : containers[n] = name

\* C18: a chosen container is in PodInfo.containers; it is the one the
\* hostname names, or the only one of the pod when the hostname names none;
\* the choice fails exactly otherwise, and then the invocation returns the
\* error having issued no exec; no exec is issued without a chosen container.
C18_ContainerIsMember ==
    \A c \in Callers :
        /\ container[c].some =>
              /\ InPod(container[c].val)
              /\ host_container[c].some => container[c].val = host_container[c].val
              /\ ~host_container[c].some => Len(containers) = 1
        /\ (Started(c, "container") /\ r_pc[c] # "container") =>
              (r_failed[c] = "container" <=>
                 ~(IF host_container[c].some THEN InPod(host_container[c].val)
                                             ELSE Len(containers) = 1))
        /\ r_failed[c] = "container" =>
              ~container[c].some /\ ~r_exec[c] /\ r_result[c] = "err"
        /\ r_exec[c] => container[c].some

\* a pod with two containers and a hostname that names none: the choice failed
C18_Witness ==
    \E c \in Callers :
        /\ Len(containers) = 2 /\ ~host_container[c].some
        /\ r_failed[c] = "container" /\ r_pc[c] = "done" /\ ~r_exec[c]

(***************************************************************************)
(* Properties of the launch loop of START_SSHD_SCRIPT                      *)
(***************************************************************************)

\* C15: an invocation of the script launches sshd at most MaxAttempts times
\* (30 in the script) and polls at most MaxPolls times (10) after each
\* launch; when it exits non-zero it has used every launch and every poll,
\* has printed no port, and ensure_sshd_running returns an error; when it
\* exits 0 after a launch it prints the port of that launch.
C15_BoundedLaunches ==
    \A c \in Callers :
        /\ launches[c] <= MaxAttempts
        /\ polls[c] <= MaxPolls
        /\ (pc[c] = "done" /\ rc[c] = "fail") =>
              /\ launches[c] = MaxAttempts /\ polls[c] = MaxPolls
              /\ out[c] = 0
              /\ ~ensure_sshd_running(rc[c], out[c]).ok
        /\ (pc[c] = "done" /\ rc[c] = "ok" /\ launches[c] > 0) =>
              /\ out[c] = PORT[c]
              /\ ensure_sshd_running(rc[c], out[c]) = [ok |-> TRUE, port |-> out[c]]

\* an invocation whose every launch lost its port to a listening sshd
C15_Witness ==
    \E c \in Callers :
        /\ pc[c] = "done" /\ rc[c] = "fail"
        /\ launches[c] = MaxAttempts /\ polls[c] = MaxPolls
        /\ \E d \in 1..Len(daemons) : daemons[d].st = "listening"

(***************************************************************************)
(* Properties of the pod choice                                            *)
(***************************************************************************)

\* the place in the list of the pod a call returned
PlaceOf(res) == CHOOSE n \in 1..Len(items) : items[n].name = res.name

\* C16: select_pod fails exactly on the empty list; else it returns a pod of
\* the list such that: if it is Ready, no pod before it is Ready; if it is
\* not Ready, no pod of the list is Ready, and if it is Running no pod before
\* it is Running; if it is not Running either, no pod is Running and it is
\* the first of the list.  Every call with the same list returns the same.
C16_FirstReadyElseRunningElseFirst ==
    /\ \A a \in 1..Len(picked) :
          /\ picked[a].ok <=> items # <<>>
          /\ picked[a].ok =>
                /\ \E n \in 1..Len(items) : items[n].name = picked[a].name
                /\ LET n == PlaceOf(picked[a]) IN
                     /\ is_ready(items[n]) =>
                           \A m \in 1..(n - 1) : ~is_ready(items[m])
                     /\ ~is_ready(items[n]) =>
                           \A m \in 1..Len(items) : ~is_ready(items[m])
                     /\ (~is_ready(items[n]) /\ is_running(items[n])) =>
                           \A m \in 1..(n - 1) : ~is_running(items[m])
                     /\ (~is_ready(items[n]) /\ ~is_running(items[n])) =>
                           /\ n = 1
                           /\ \A m \in 1..Len(items) : ~is_running(items[m])
    /\ \A a, b \in 1..Len(picked) : picked[a] = picked[b]

\* the list of the spec's scenario (Pending; Running, not Ready; Running and
\* Ready) and two calls that both returned the third pod
C16_Witness ==
    /\ Len(items) = 3
    /\ items[1].status = Status(Phase("Pending"), NoConditions)
    /\ items[2].status = Status(Phase("Running"), Conditions(<<Cond("Ready", "False")>>))
    /\ items[3].status = Status(Phase("Running"), Conditions(<<Cond("Ready", "True")>>))
    /\ picked = <<PodOk(PodName(3)), PodOk(PodName(3))>>

HasReadyTrue(cs) ==
    \E n \in 1..Len(cs) : cs[n] = Cond("Ready", "True")

\* C17: is_ready returned true exactly for a pod with a status whose phase is
\* "Running" and whose conditions hold an entry of type "Ready" and status
\* "True"; is_running returned true exactly for a pod whose phase is
\* "Running"; so every pod found Ready was found Running, and a pod without
\* status, phase or conditions was not found Ready.
C17_ReadyIsRunningAndCondition ==
    \A n \in 1..Len(items) :
        verdict[n].done =>
            LET st == items[n].status IN
            /\ verdict[n].running <=>
                  (st.some /\ st.val.phase = Phase("Running"))
            /\ verdict[n].ready <=>
                  /\ st.some /\ st.val.phase = Phase("Running")
                  /\ st.val.conditions.some /\ HasReadyTrue(st.val.conditions.val)
            /\ verdict[n].ready => verdict[n].running
            /\ (~st.some \/ ~st.val.phase.some \/ ~st.val.conditions.some) =>
                  ~verdict[n].ready

\* the pod of tests::test_is_ready_true was found Ready, a Running pod
\* without conditions was found Running and not Ready
C17_Witness ==
    \E n, m \in 1..Len(items) :
        /\ items[n].status = Status(Phase("Running"), Conditions(<<Cond("Ready", "True")>>))
        /\ verdict[n].done /\ verdict[n].ready /\ verdict[n].running
        /\ items[m].status = Status(Phase("Running"), NoConditions)
        /\ verdict[m].done /\ ~verdict[m].ready /\ verdict[m].running

(***************************************************************************)
(* Properties of hostspec::parse                                           *)
(***************************************************************************)

\* C19: parse(host) and parse(host + ".") return the same: the same HostSpec
\* or the same error.
C19_TrailingDotSame ==
    dotted.called => dotted.res = parsed.res

\* hostnames that parse, and hostnames that fail each way, with and without
\* dots at the end, gave the same with one dot more
C19_Witness ==
    /\ dotted.called /\ dotted.res = parsed.res
    /\ parsed.res.ok
    /\ host[Len(host)] = EmptyLabel
    /\ parsed.res.container.some /\ parsed.res.target.kind = "Deployment"

\* C20 as claimed: the tokens of an accepted hostname in any order parse to
\* the same HostSpec.
C20_AnyOrderSame ==
    reordered.called => reordered.res = parsed.res

\* C20 as amended: parse reads the tokens by their place; a hostname with the
\* tokens of an accepted one in another order never parses to the same
\* HostSpec: it is rejected with InvalidFormat or parsed to another HostSpec.
C20_OtherOrderDiffers ==
    (reordered.called /\ reordered.host # host) =>
        /\ reordered.res # parsed.res
        /\ ~reordered.res.ok => reordered.res = InvalidFormat

\* pod--b.namespace--a.context--a.sshpod was accepted, and with the context
\* token first it was rejected
C20_Witness ==
    /\ host = <<<<"pod--", "b">>, <<"namespace--", "a">>, <<"context--", "a">>, SuffixLabel>>
    /\ parsed.res = HostSpec(Target("Pod", <<"b">>), Some(<<"a">>), <<"a">>, None)
    /\ reordered.called
    /\ reordered.host[1] = <<"context--", "a">>
    /\ reordered.res = InvalidFormat

\* a token that names a target: a bare name or pod--, deployment--, job-- and
\* a name
IsTargetToken(t) ==
    /\ t # <<>>
    /\ t[1] \notin {"container--", "namespace--", "context--"}
    /\ parse_target(t) # NoTarget

\* a token of the key k with a name after it
IsKeyToken(t, k) == Len(t) = 2 /\ t[1] = k

CountTokens(ts, Test(_)) == Cardinality({n \in 1..Len(ts) : Test(ts[n])})

IsContainerToken(t) == IsKeyToken(t, "container--")
IsNamespaceToken(t) == IsKeyToken(t, "namespace--")
IsContextToken(t) == IsKeyToken(t, "context--")

\* a hostname that ends in .sshpod with one target token, no token that
\* starts with context--, and else container-- and namespace-- tokens only,
\* each at most once
WithTargetNoContext(h) ==
    /\ HasSuffix(trim_end_dots(h))
    /\ LET ts == TokensOf(h)
       IN /\ CountTokens(ts, IsTargetToken) = 1
          /\ CountTokens(ts, IsContainerToken) <= 1
          /\ CountTokens(ts, IsNamespaceToken) <= 1
          /\ \A n \in 1..Len(ts) :
                IsTargetToken(ts[n]) \/ IsContainerToken(ts[n]) \/ IsNamespaceToken(ts[n])

EndsWithSshpod(h) ==
    \E n \in 2..Len(h) :
        /\ h[n] = SuffixLabel
        /\ \A m \in (n + 1)..Len(h) : h[m] = EmptyLabel

\* the labels before that sshpod label
BeforeSshpod(h) ==
    LET n == CHOOSE k \in 2..Len(h) :
                 h[k] = SuffixLabel /\ \A m \in (k + 1)..Len(h) : h[m] = EmptyLabel
    IN SubSeq(h, 1, n - 1)

C23_MissingSuffixExactly ==
    parsed.called =>
        /\ parsed.res = MissingSuffix <=> ~EndsWithSshpod(host)
        /\ (~parsed.res.ok /\ EndsWithSshpod(host)) => parsed.res = InvalidFormat

\* "sshpod.." has no ".sshpod" at its end and got MissingSuffix
C23_Witness ==
    /\ host = <<SuffixLabel, EmptyLabel, EmptyLabel>>
    /\ ~EndsWithSshpod(host)
    /\ parsed.called /\ parsed.res = MissingSuffix

\* the keys that are not target keys
OptionKeys == {"container--", "namespace--", "context--"}

\* a token that starts with one of these keys, and one with nothing after it
StartsWithKey(t) == t # <<>> /\ t[1] \in OptionKeys
IsEmptyValue(t) == Len(t) = 1 /\ t[1] \in OptionKeys \cup {"pod--", "deployment--", "job--"}
IsEmptyToken(t) == t = EmptyLabel

\* a key of OptionKeys that starts two tokens
KeyRepeated(ts) ==
    \E a, b \in 1..Len(ts) :
        a # b /\ StartsWithKey(ts[a]) /\ StartsWithKey(ts[b]) /\ ts[a][1] = ts[b][1]

\* C24: parse succeeds only when exactly one target token appears; a
\* hostname with the suffix and without a target token, with a key
\* repeated, with an empty value after a key or with an empty token is
\* rejected with InvalidFormat; a token that starts with container--,
\* namespace-- or context-- is never taken as a bare pod name.
C24_ExactlyOneTarget ==
    (parsed.called /\ EndsWithSshpod(host)) =>
        LET ts == BeforeSshpod(host)
        IN /\ parsed.res.ok => CountTokens(ts, IsTargetToken) = 1
           /\ ( \/ CountTokens(ts, IsTargetToken) = 0
                \/ KeyRepeated(ts)
                \/ CountTokens(ts, IsEmptyValue) > 0
                \/ CountTokens(ts, IsEmptyToken) > 0 ) => parsed.res = InvalidFormat
           /\ parsed.res.ok =>
                ~(parsed.res.target.kind = "Pod" /\ StartsWithKey(parsed.res.target.name))

(***************************************************************************)
(* Properties of to_selector and of the selector of a job                  *)
(***************************************************************************)
\* the operators a rendering is claimed for, and those that need values
RenderedOperators == {"In", "NotIn", "Exists", "DoesNotExist"}
AllRendered(me) == \A n \in 1..Len(me) : me[n].operator \in RenderedOperators
LacksValues(me) ==
    \E n \in 1..Len(me) : me[n].operator \in {"In", "NotIn"} /\ me[n].values = <<>>

\* the part claimed for one expression
ClaimedPart(expr) ==
    CASE expr.operator = "In" ->
           <<expr.key, " in (">> \o JoinValues(expr.values) \o <<")">>
      [] expr.operator = "NotIn" ->
           <<expr.key, " notin (">> \o JoinValues(expr.values) \o <<")">>
      [] expr.operator = "Exists" -> <<expr.key>>
      [] expr.operator = "DoesNotExist" -> <<"!", expr.key>>

\* text is the comma-joined list of one part k=v per entry of ml, in some
\* order, and then one part per expression of me
IsJoinOf(text, ml, me) ==
    \E f \in Orders(Len(ml)) :
        text = Join([n \in 1..Len(ml) |-> <<ml[f[n]][1], "=", ml[f[n]][2]>>]
                    \o [n \in 1..Len(me) |-> ClaimedPart(me[n])], ",")

\* C25: for a selector whose operators are In, NotIn, Exists, DoesNotExist,
\* to_selector returns the comma-joined list with one part k=v per
\* matchLabels entry and one part per matchExpression; it fails when an In
\* or NotIn expression has no values and when the selector has no labels and
\* no expressions.
C25_SelectorRendering ==
    rendered.called =>
        LET ml == selector.match_labels
            me == selector.match_expressions
        IN /\ (AllRendered(me) /\ ~LacksValues(me) /\ (ml # <<>> \/ me # <<>>)) =>
                 rendered.res.ok /\ IsJoinOf(rendered.res.text, ml, me)
           /\ LacksValues(me) => ~rendered.res.ok
           /\ (ml = <<>> /\ me = <<>>) => ~rendered.res.ok

\* two labels, handed out in the other order, an In with two values and a
\* DoesNotExist were rendered
C25_Witness ==
    /\ rendered.called /\ rendered.res.ok
    /\ Len(selector.match_labels) = 2
    /\ rendered.res.text =
         <<"tier", "=", "db", ",", "app", "=", "web", ",",
           "env", " in (", "v1", ",", "v2", ")", ",", "!", "env">>

\* C28: the pod selector of a job is its spec.selector.matchLabels when it
\* has any (rendered with the expressions of that selector); otherwise the
\* labels of spec.template.metadata.labels when there are any; otherwise
\* the literal job-name=<job name>.  A job whose spec.selector is there
\* without labels falls back to the next source instead of failing.
C28_JobSelectorFallback ==
    job_rendered.called =>
        LET sl == job.selector.val.match_labels
            se == job.selector.val.match_expressions
            tl == job.metadata.labels
        IN IF job.selector.some /\ sl # <<>>
           THEN (AllRendered(se) /\ ~LacksValues(se)) =>
                    job_rendered.res.ok /\ IsJoinOf(job_rendered.res.text, sl, se)
           ELSE IF job.metadata.some /\ tl # <<>>
           THEN job_rendered.res.ok /\ IsJoinOf(job_rendered.res.text, tl, <<>>)
           ELSE job_rendered.res = SelectorOk(<<"job-name=", job.name>>)

(***************************************************************************)
(* Properties of detect_remote_arch                                        *)
(***************************************************************************)
\* the machines with a bundle, as uname prints them, and the arch claimed
\* for each
KnownMachines ==
    { <<"x86_64", "\n">>, <<"amd64", "\n">>, <<"aarch64", "\n">>, <<"arm64", "\n">> }
ClaimedArch(m) ==
    IF m \in {<<"x86_64", "\n">>, <<"amd64", "\n">>}
    THEN <<"linux/amd64">> ELSE <<"linux/arm64">>

\* the call of detect_remote_arch has returned
ArchReturned(c) == Started(c, "arch") /\ r_pc[c] # "arch"

\* C26: detect_remote_arch maps x86_64 and amd64 to linux/amd64, aarch64 and
\* arm64 to linux/arm64, and fails for every other output of uname -m; when
\* it fails, no bundle installation is attempted.
C26_ArchDetection ==
    \A c \in Callers :
        ArchReturned(c) =>
            /\ r_arch[c].some =>
                  machine \in KnownMachines /\ r_arch[c].val = ClaimedArch(machine)
            /\ machine \notin KnownMachines => ~r_arch[c].some
            /\ ~r_arch[c].some =>
                  /\ r_failed[c] = "arch" /\ r_result[c] = "err"
                  /\ ~Started(c, "bundle") /\ ~r_input[c]

\* on an arm64 machine one invocation got linux/arm64 and went on to the
\* bundle; the uname of the other failed and it ended there
C26_Witness ==
    /\ machine = <<"arm64", "\n">>
    /\ r_arch["c1"] = Some(<<"linux/arm64">>) /\ Started("c1", "bundle")
    /\ ArchReturned("c2") /\ r_failed["c2"] = "arch" /\ ~Started("c2", "bundle")

(***************************************************************************)
(* Liveness of the bridge stage                                            *)
(***************************************************************************)
BridgeReturned == run_pc = "returned"

\* C27 as claimed: the bridge ends when either side closes: once the socket
\* has reached EOF the bridge eventually returns, whatever stdin does; and
\* once stdin has reached EOF and the remote side has closed, the bridge
\* eventually returns.
C27_EitherSideEnds ==
    /\ fr_eof ~> BridgeReturned
    /\ (tr_eof /\ ~remote_open) ~> BridgeReturned

\* C27 as amended: the bridge ends when both sides have closed: once stdin
\* has reached EOF and the remote side has closed, the bridge eventually
\* returns; the EOF of the socket alone does not end it: pump returns only
\* after the stdin -> socket task has ended too, with stdin at EOF or with
\* an error.
C27_BothSidesEnd ==
    /\ (tr_eof /\ ~remote_open) ~> BridgeReturned
    /\ []((PumpStarted /\ run_pc \in {"stop", "returned"}) =>
            /\ tr_eof \/ to_remote = "err"
            /\ fr_eof \/ from_remote = "err")

\* bytes went both ways, stdin and the socket reached EOF, both tasks
\* returned Ok and the bridge returned
C27_Witness ==
    /\ BridgeReturned /\ result = "ok"
    /\ tr_eof /\ fr_eof /\ ~remote_open /\ ~stdin_open
    /\ to_remote = "ok" /\ from_remote = "ok"
    /\ stdin_read >= 1 /\ stdout_written >= 1

(***************************************************************************)
(* Properties of the port of START_SSHD_SCRIPT                             *)
(***************************************************************************)
\* the ports of [20000, 65000)
PortRange == PortBase..(PortBase + PortSpan - 1)

\* the script of caller c has exited
Exited(c) == pc[c] = "done" /\ rc[c] # "none"

\* C29: every port rand_port chooses lies in [20000, 65000), for every
\* 16-bit value read; a port the script prints is such a port and
\* ensure_sshd_running returns it as it is; when the script fails or its
\* output is not a 16-bit unsigned integer (nothing printed, or a number
\* above 65535) ensure_sshd_running returns an error, not a truncated value.
\* (rand_port reads no state: its 65536 values are gone through once, before
\* the first run)
C29_PortRange ==
    /\ runs = 0 =>
          \A val \in 0..U16Max : rand_port(val) \in PortRange /\ rand_port(val) <= U16Max
    /\ \A c \in Callers :
          /\ PORT[c] # 0 => PORT[c] \in PortRange
          /\ (Exited(c) /\ rc[c] = "ok" /\ out[c] # 0) =>
                /\ out[c] \in PortRange
                /\ ensure_sshd_running(rc[c], out[c]) = [ok |-> TRUE, port |-> out[c]]
          /\ (Exited(c) /\ (rc[c] # "ok" \/ out[c] = 0)) =>
                ~ensure_sshd_running(rc[c], out[c]).ok
          /\ PORT[c] # 0 => ~ensure_sshd_running("ok", PORT[c] + U16Max + 1).ok

\* one caller launched sshd on 64999, the last port of the range, and got it
\* back from ensure_sshd_running; the other took the fast path while
\* sshd.port was open and empty, printed nothing and got an error
C29_Witness ==
    \E c, d \in Callers :
        /\ Exited(c) /\ rc[c] = "ok" /\ launches[c] > 0
        /\ out[c] = PortBase + PortSpan - 1
        /\ ensure_sshd_running(rc[c], out[c]).port = PortBase + PortSpan - 1
        /\ Exited(d) /\ rc[d] = "ok" /\ out[d] = 0
        /\ ~ensure_sshd_running(rc[d], out[d]).ok

\* an sshd launched from this BASE is listening on port p
Listening(ds, p) == \E d \in 1..Len(ds) : ds[d].st = "listening" /\ ds[d].port = p

\* C30: whenever ensure_sshd_running returns a port, by the fast path or
\* after a launch, an sshd launched from this BASE is listening on that port
\* at the time the script exits, under every interleaving of the callers.
C30_ReturnedPortListens ==
    [][\A c \in Callers :
          (pc[c] # "done" /\ pc'[c] = "done" /\ ensure_sshd_running(rc'[c], out'[c]).ok)
              => Listening(daemons', ensure_sshd_running(rc'[c], out'[c]).port)]_vars

\* BASE/bundle/VERSION and BASE/bundle/ARCH hold what ensure_bundle compares
\* equal at bundle.rs 50
MarkersOnDisk ==
    MarkersMatch(exec_capture_optional_cat(version_file),
                 exec_capture_optional_cat(arch_file), arch)

\* C31: whenever BASE/bundle/VERSION and BASE/bundle/ARCH both match, so
\* that ensure_bundle returns without installing, BASE/bundle/sshd holds the
\* complete payload: neither a failed install nor a reinstall by another
\* caller leaves matching markers beside an empty or partly written sshd.
C31_MarkersImplyPayload == MarkersOnDisk => bundle_sshd = "new"

====
